---- MODULE Spec2Model ----
(***************************************************************************)
(* SpendLite (script.js): rule-text canonicalisation (sortRulesBox), rule  *)
(* parsing (parseRules), keyword matching (matchesKeyword) and the         *)
(* classifier (categorise), modelled on JavaScript strings.                *)
(*                                                                         *)
(* A JavaScript string is a TLA+ string; the character at position i of s  *)
(* is SubSeq(s, i, i).  "\n" is the line feed, "\r" the carriage return.   *)
(***************************************************************************)
EXTENDS Integers, Sequences, FiniteSets, TLC

VARIABLES
    pc,             \* "boot" before the DOMContentLoaded handler ran, then "ready"
    rulesBox,       \* document.getElementById('rulesBox').value
    lsRules,        \* localStorage[LS_KEYS.RULES]; "" when the key is absent
    INITIAL_RULES,  \* snapshot of the rule text taken at startup
    RULES_CHANGED,  \* set by the 'input' listener and by addOrUpdateRuleLine
    CURRENT_TXNS,   \* the canonical transaction list
    CURRENT_RULES,  \* the rule list parsed at the last classification pass
    op,             \* the function or handler that ran last
    arg,            \* the argument it was called with
    original,       \* sortRulesBox's local `original`: the text its last run read
    ret,            \* what the function that ran last returned
    inputEvents,    \* number of 'input' events the function that ran last dispatched
    MONTH_FILTER,   \* the selected month 'YYYY-MM', "" for all months
    lsTxns,         \* localStorage[LS_KEYS.TXNS_JSON]: the persisted transactions
    monthDropdown,  \* the <select id="monthFilter">: its options and its value
    alertMsg,       \* the message of the alert the handler that ran last raised, "" if none
    CURRENT_PAGE,   \* the page of the transactions table that is shown
    wheelPages      \* `pages` in the closure of the table's 'wheel' listener,
                    \* 0 while table._wheelBound is not set

vars == <<pc, rulesBox, lsRules, INITIAL_RULES, RULES_CHANGED, CURRENT_TXNS,
          CURRENT_RULES, op, arg, original, ret, inputEvents,
          MONTH_FILTER, lsTxns, monthDropdown, alertMsg, CURRENT_PAGE, wheelPages>>

\* the state of the transaction side of the page
txnVars == <<MONTH_FILTER, lsTxns, monthDropdown, alertMsg, CURRENT_PAGE, wheelPages>>

\* rows of a page of the transactions table
PAGE_SIZE == 10

----------------------------------------------------------------------------
(* Bounds of the model.                                                    *)

\* number of lines of the rule text the session starts from
MaxLines == 3
\* a handler that may lengthen the rule text runs only below this many lines
MaxBoxLines == 4
\* number of rule-text lines a classification starts from
MaxCatLines == 2
\* number of transactions in the list
MaxTxns == 2
\* number of tokens of a keyword handed to matchesKeyword
MaxKwTokens == 4
\* number of text lines of a PDF handed to the document-text scan
MaxPdfLines == 4
\* number of data rows of a CSV file
MaxCsvRows == 2
\* number of characters of a text handed to parseAmount
MaxAmountLen == 3
\* number of years the dates handed to parseDateSmart are taken from
MaxDateYears == 2
\* number of transactions handed to computeCategoryTotals
MaxTotalsTxns == 3
\* number of pages of the largest file loaded in a session
MaxPages == 3
\* number of words of a description handed to deriveKeywordFromTxn
MaxDescWords == 3

----------------------------------------------------------------------------
(* JavaScript string primitives.                                           *)

Ch(s, i) == SubSeq(s, i, i)

CharsOf(s) == {Ch(s, i) : i \in 1..Len(s)}

\* the characters String.prototype.trim and the regex class \s remove
IsSpace(c) == c \in {" ", "\t", "\r", "\n"}

LowerLetters == "abcdefghijklmnopqrstuvwxyz"
UpperLetters == "ABCDEFGHIJKLMNOPQRSTUVWXYZ"
Digits == "0123456789"

\* position of character c in alphabet, 0 when it is not there
RECURSIVE IndexFrom(_, _, _)
IndexFrom(alphabet, c, i) ==
    IF i > Len(alphabet) THEN 0
    ELSE IF Ch(alphabet, i) = c THEN i
    ELSE IndexFrom(alphabet, c, i + 1)

IndexIn(alphabet, c) == IndexFrom(alphabet, c, 1)

UpperOf == [c \in CharsOf(LowerLetters) |-> Ch(UpperLetters, IndexIn(LowerLetters, c))]
LowerOf == [c \in CharsOf(UpperLetters) |-> Ch(LowerLetters, IndexIn(UpperLetters, c))]

toUpperChar(c) == IF c \in DOMAIN UpperOf THEN UpperOf[c] ELSE c

toLowerChar(c) == IF c \in DOMAIN LowerOf THEN LowerOf[c] ELSE c

RECURSIVE toUpperCase(_)
toUpperCase(s) ==
    IF s = "" THEN "" ELSE toUpperChar(Ch(s, 1)) \o toUpperCase(Tail(s))

RECURSIVE toLowerCase(_)
toLowerCase(s) ==
    IF s = "" THEN "" ELSE toLowerChar(Ch(s, 1)) \o toLowerCase(Tail(s))

RECURSIVE trimStart(_)
trimStart(s) ==
    IF s # "" /\ IsSpace(Ch(s, 1)) THEN trimStart(Tail(s)) ELSE s

RECURSIVE trimEnd(_)
trimEnd(s) ==
    IF s # "" /\ IsSpace(Ch(s, Len(s))) THEN trimEnd(SubSeq(s, 1, Len(s) - 1)) ELSE s

trim(s) == trimEnd(trimStart(s))

startsWith(s, p) == Len(s) >= Len(p) /\ SubSeq(s, 1, Len(p)) = p

\* s.indexOf(sub, from), counted from 1; 0 when sub does not occur
RECURSIVE indexOf(_, _, _)
indexOf(s, sub, from) ==
    IF from + Len(sub) - 1 > Len(s) THEN 0
    ELSE IF SubSeq(s, from, from + Len(sub) - 1) = sub THEN from
    ELSE indexOf(s, sub, from + 1)

\* s.split(/\r?\n/)
RECURSIVE splitLines(_)
splitLines(s) ==
    LET i == indexOf(s, "\n", 1)
    IN  IF i = 0 THEN <<s>>
        ELSE LET e == IF i > 1 /\ Ch(s, i - 1) = "\r" THEN i - 2 ELSE i - 1
             IN  <<SubSeq(s, 1, e)>> \o splitLines(SubSeq(s, i + 1, Len(s)))

\* s.split(/=>/i)
RECURSIVE splitArrow(_)
splitArrow(s) ==
    LET i == indexOf(s, "=>", 1)
    IN  IF i = 0 THEN <<s>>
        ELSE <<SubSeq(s, 1, i - 1)>> \o splitArrow(SubSeq(s, i + 2, Len(s)))

\* parts.join(sep)
RECURSIVE join(_, _)
join(parts, sep) ==
    IF Len(parts) = 0 THEN ""
    ELSE IF Len(parts) = 1 THEN parts[1]
    ELSE parts[1] \o sep \o join(Tail(parts), sep)

\* s.split(sep) for a literal separator
RECURSIVE split(_, _)
split(s, sep) ==
    LET i == indexOf(s, sep, 1)
    IN  IF i = 0 THEN <<s>>
        ELSE <<SubSeq(s, 1, i - 1)>> \o split(SubSeq(s, i + Len(sep), Len(s)), sep)

\* the length of the longest prefix of s made of characters of the set cs
RECURSIVE span(_, _)
span(s, cs) ==
    IF s # "" /\ Ch(s, 1) \in cs THEN 1 + span(Tail(s), cs) ELSE 0

\* the characters of s that are in the set cs, in order
RECURSIVE keepChars(_, _)
keepChars(s, cs) ==
    IF s = "" THEN ""
    ELSE (IF Ch(s, 1) \in cs THEN Ch(s, 1) ELSE "") \o keepChars(Tail(s), cs)

\* the value of a string of decimal digits
RECURSIVE digitsValue(_)
digitsValue(s) ==
    IF s = "" THEN 0
    ELSE digitsValue(SubSeq(s, 1, Len(s) - 1)) * 10 + (IndexIn(Digits, Ch(s, Len(s))) - 1)

----------------------------------------------------------------------------
(* Inputs of the model.                                                    *)

\* the lines a rule text is made of: blank, comment, text without a
\* separator, rules (two of them for the same keyword), a line with two
\* separators, a line with an empty keyword, a line with an empty category
RuleLineSet ==
    {"", "# c", "junk", "B => X", "A => y", "a => b => c", "=> FOOD", "COLES =>"}

RECURSIVE SeqsUpTo(_, _)
SeqsUpTo(S, n) ==
    IF n = 0 THEN {<<>>}
    ELSE LET shorter == SeqsUpTo(S, n - 1)
         IN  shorter \cup {Append(q, x) : q \in {r \in shorter : Len(r) = n - 1}, x \in S}

\* the rule texts the rules box can hold when the page starts
RestoredTexts == {join(ls, "\n") : ls \in SeqsUpTo(RuleLineSet, MaxLines)}

\* the keyword and the category a caller hands to addOrUpdateRuleLine
RuleArgs == {<<"", "Z">>, <<"A", "">>, <<"A", "Z">>, <<"C", "Z">>}


\* the lines of the rule texts the classifier is run with
CatRuleLines ==
    {"COFFEE SHOP => CAFE", "SHOP => RETAIL", "bp => petrol",
     "COLES EXPRESS FUEL => PETROL"}

CatRuleTexts == {join(ls, "\n") : ls \in SeqsUpTo(CatRuleLines, MaxCatLines)}

\* the transactions a load leaves in CURRENT_TXNS (amounts in cents)
LoadedTxns ==
    {[date |-> "2025-07-01", amount |-> a[2], description |-> a[1], category |-> ""] :
        a \in {<<"coffee shop", 450>>, <<"BP SHOP", 200>>, <<"bp shop", -201>>,
               <<"COLES EXPRESS - FUEL", 150>>, <<"woolworthsextra", 150>>}}

\* the characters of the texts handed to parseAmount: digits, the minus
\* sign, the decimal point, the thousands separator and a currency symbol
AmountChars == {"0", "1", "-", ".", ",", "$"}

\* the arguments of parseAmount: <<>> stands for null, <<s>> for the text s;
\* every text of up to MaxAmountLen characters, and some longer ones
AmountArgs ==
    {<<>>}
    \cup {<<join(cs, "")>> : cs \in SeqsUpTo(AmountChars, MaxAmountLen)}
    \cup {<<"$1,234.56">>, <<"AUD -12.50">>, <<"n/a">>, <<"1.2.3.4">>, <<"12-34.5">>}

\* the dates named in the texts handed to parseDateSmart: every month of
\* leap year 2024 and the years behind it, the first day and the days 28 to
\* 31 (which some months do not have)
DateYears == 2024..(2024 + MaxDateYears - 1)

DateDays == {1, 28, 29, 30, 31}

\* the text naming day d of month m of year y: year-first 'YYYY-MM-DD',
\* day-first 'DD/MM/YYYY', natural 'D Month YYYY'
dateText(form, y, m, d) ==
    LET two(n) == (IF n < 10 THEN "0" ELSE "") \o ToString(n)
        MonthNames ==
            <<"January", "February", "March", "April", "May", "June", "July",
              "August", "September", "October", "November", "December">>
    IN  IF form = "year-first" THEN ToString(y) \o "-" \o two(m) \o "-" \o two(d)
        ELSE IF form = "day-first" THEN two(d) \o "/" \o two(m) \o "/" \o ToString(y)
        ELSE ToString(d) \o " " \o MonthNames[m] \o " " \o ToString(y)

\* texts none of the three patterns of parseDateSmart matches
NonDateTexts ==
    {"not a date", "2025-07", "07/2025", "2025.07.01", "20250701", "1/7/25",
     "1 Jul 2025", "July 1 2025", "1 July", "2025-07-01T00:00", "x 1 July 2025", " "}

DateTexts ==
    {dateText(form, y, m, d) :
        form \in {"year-first", "day-first", "natural"},
        y \in DateYears, m \in 1..12, d \in DateDays}
    \cup NonDateTexts

\* the lists handed to computeCategoryTotals: transactions as categorise
\* leaves them, with a category in capitals; amounts in cents, a refund
\* (negative) among them
TotalsTxns ==
    SeqsUpTo({[date |-> "2025-07-01", amount |-> a, description |-> "x", category |-> c] :
                 a \in {100, 250, -100}, c \in {"GROCERIES", "PETROL", "UNCATEGORISED"}},
             MaxTotalsTxns)

\* the words the descriptions handed to deriveKeywordFromTxn are made of: a
\* plain word, the PayPal marker, the card prefix with and without a token
\* behind it, words with '&', '.', '_' and with other punctuation
DescWords == {"Coles", "PAYPAL", "VISA-X1", "visa-", "*7_11", "B&B."}

\* the transactions: a description of one to MaxDescWords words
DerivedFromTxns ==
    {[date |-> "2025-07-01", amount |-> 450, description |-> join(ws, " "),
      category |-> "UNCATEGORISED"] :
        ws \in SeqsUpTo(DescWords, MaxDescWords) \ {<<>>}}

\* the tokens the keywords handed to matchesKeyword are made of
MatchTokens == {"coles", "Express", "fuel"}

\* the keywords: one to MaxKwTokens tokens separated by a space, the
\* keyword of the substring example, the empty and the blank keyword
MatchKeywords ==
    {join(ts, " ") : ts \in SeqsUpTo(MatchTokens, MaxKwTokens)}
    \cup {"woolworths", " "}

\* the descriptions: the three tokens in order between boundary characters,
\* in reverse order, with another token between them, glued together,
\* joined by a token character, and the substring example
MatchDescs ==
    {"COLES EXPRESS - FUEL", "fuel express coles", "coles xx express fuel",
     "colesexpress fuel", "Coles&Express fuel", "coles-express--fuel!",
     "express", "woolworthsextra", "WOOLWORTHS/EXTRA", ""}

\* the text lines of a PDF: two date markers (the second in capitals), an
\* amount, a description, a repayment description and a table header
PdfLineSet ==
    {"1 Jul 2025", "2 JUL 2025", "-$4.50", "COLES", "Payment-BPAY 1", "Date"}

\* the text the pages of a PDF give: every item on a line of its own
PdfTexts == {join(ls, "\n") \o "\n" : ls \in SeqsUpTo(PdfLineSet, MaxPdfLines)}

\* the cells <<date, debit, description>> of the data rows: a debit, a debit
\* with a minus sign and no description, a row with an amount only, a zero
\* amount, a row without a date
CsvCells ==
    {<<"01/07/2025", "4.50", "COLES">>, <<"02/08/2025", "-12.50", "">>,
     <<"", "3.00", "">>, <<"03/07/2025", "0.00", "ZERO">>,
     <<"", "$1,000.00", " REFUND ">>}

\* what Papa.parse(csvText, {header: true}) gives for a file with the
\* header row h (the columns in the file's order, each <<k, name>> with k
\* telling which of the cells <<date, debit, description>> it holds) and
\* the data rows cs: meta.fields and the row-objects keyed by header name
parsedCsv(h, cs) ==
    [fields |-> [k \in 1..3 |-> h[k][2]],
     data |-> [i \in 1..Len(cs) |-> [f \in {h[k][2] : k \in 1..3} |->
                 cs[i][h[CHOOSE k \in 1..3 : h[k][2] = f][1]]]]]

\* the files: the bank's export, and a file with other column names in
\* another order, where the date column is found by its position only
CsvFiles ==
    {parsedCsv(<<<<1, "Effective Date">>, <<2, "Debit Amount">>,
                 <<3, "Long Description">>>>, cs) :
        cs \in SeqsUpTo(CsvCells, MaxCsvRows)}
    \cup
    {parsedCsv(<<<<3, "DESCRIPTION">>, <<2, "debit amount">>, <<1, "Date">>>>, cs) :
        cs \in SeqsUpTo({c \in CsvCells : c[2] \in {"4.50", "0.00"}}, MaxCsvRows)}

\* the texts of the PDFs that are imported: no text, a record, two records,
\* a record without a date marker, a repayment
ImportedPdfTexts ==
    {"", "1 Jul 2025\nCOLES\n-$4.50\n", "1 Jul 2025\nCOLES\n-$4.50\n2 Aug 2025\nBP\n$60.00\n",
     "COLES\n-$4.50\n", "1 Jul 2025\nPayment-BPAY 1\n5.00\n"}

\* the rule text of the sessions that load transactions
LoadRuleTexts == {"BP => PETROL\nCOLES => GROCERIES"}

\* the month restored from localStorage when the page starts
SavedMonths == {"", "2025-07"}

----------------------------------------------------------------------------
(* sortRulesBox                                                            *)

\* String.prototype.localeCompare with { sensitivity: 'base' }: characters
\* are compared by their primary collation weight, case ignored; white
\* space sorts before punctuation, punctuation before symbols, symbols
\* before digits, digits before letters.
CollationOrder == "\t\n\r _-.&#=>0123456789abcdefghijklmnopqrstuvwxyz"

WeightOf == [c \in CharsOf(CollationOrder) |-> IndexIn(CollationOrder, c)]

collationWeight(c) ==
    LET base == toLowerChar(c)
    IN  IF base \in DOMAIN WeightOf THEN WeightOf[base] ELSE Len(CollationOrder) + 1

RECURSIVE localeCompare(_, _)
localeCompare(a, b) ==
    IF a = "" THEN (IF b = "" THEN 0 ELSE -1)
    ELSE IF b = "" THEN 1
    ELSE LET wa == collationWeight(Ch(a, 1))
             wb == collationWeight(Ch(b, 1))
         IN  IF wa < wb THEN -1
             ELSE IF wa > wb THEN 1
             ELSE localeCompare(Tail(a), Tail(b))

\* the test of the loop: a blank line or a line starting with '#'
isBlankOrComment(line) ==
    LET trimmed == trim(line) IN trimmed = "" \/ startsWith(trimmed, "#")

\* const keyword = parts[0].trim()
keywordOf(line) == trim(splitArrow(line)[1])

\* const category = parts.slice(1).join('=>').trim()
categoryOf(line) == trim(join(Tail(splitArrow(line)), "=>"))

\* the line goes to `comments`
goesToComments(line) ==
    isBlankOrComment(line) \/ Len(splitArrow(line)) < 2

\* the line goes to `ruleLines`
goesToRuleLines(line) ==
    /\ ~isBlankOrComment(line)
    /\ Len(splitArrow(line)) >= 2
    /\ keywordOf(line) # ""
    /\ categoryOf(line) # ""

\* emitRuleLine with the category cut down to the text behind the last separator
emitRuleLineLastPart(line) ==
    LET parts == splitArrow(line)
    IN  toUpperCase(keywordOf(line)) \o " => " \o toUpperCase(trim(parts[Len(parts)]))

\* `${keyword.toUpperCase()} => ${category.toUpperCase()}`
emitRuleLine(line) ==
    toUpperCase(keywordOf(line)) \o " => " \o toUpperCase(categoryOf(line))

commentsOf(lines) == SelectSeq(lines, goesToComments)

ruleLinesOf(lines) ==
    LET kept == SelectSeq(lines, goesToRuleLines)
    IN  [i \in 1..Len(kept) |-> emitRuleLine(kept[i])]

\* the comparator handed to Array.prototype.sort
sortKey(ruleLine) == toLowerCase(trim(splitArrow(ruleLine)[1]))

\* compareRuleLines with the operands swapped
compareRuleLinesSwapped(a, b) == localeCompare(sortKey(b), sortKey(a))

compareRuleLines(a, b) == localeCompare(sortKey(a), sortKey(b))

\* Array.prototype.sort is stable: an element goes behind the elements
\* that do not compare greater than it
insertSorted(sorted, x) ==
    LET before == {i \in 1..Len(sorted) : compareRuleLines(sorted[i], x) <= 0}
        k == IF before = {} THEN 0 ELSE CHOOSE i \in before : \A j \in before : j <= i
    IN  SubSeq(sorted, 1, k) \o <<x>> \o SubSeq(sorted, k + 1, Len(sorted))

RECURSIVE sortRuleLines(_)
sortRuleLines(ruleLines) ==
    IF Len(ruleLines) = 0 THEN <<>>
    ELSE insertSorted(sortRuleLines(SubSeq(ruleLines, 1, Len(ruleLines) - 1)),
                      ruleLines[Len(ruleLines)])

\* comments (as-is), blank line if both parts exist, then sorted rules
reassemble(comments, sorted) ==
    comments
    \o (IF Len(comments) > 0 /\ Len(sorted) > 0 THEN <<"">> ELSE <<>>)
    \o sorted

\* the text sortRulesBox computes from the text it reads
sortRulesBoxNext(text) ==
    LET lines == splitLines(text)
    IN  join(reassemble(commentsOf(lines), sortRuleLines(ruleLinesOf(lines))), "\n")

----------------------------------------------------------------------------
(* parseRules                                                              *)

\* true when parseRules pushes a rule for the line
yieldsRule(line) ==
    LET trimmed == trim(line)
        parts == splitArrow(trimmed)
    IN  /\ trimmed # ""
        /\ ~startsWith(trimmed, "#")
        /\ Len(parts) >= 2
        /\ trim(parts[1]) # ""
        /\ trim(parts[2]) # ""

\* { keyword, category } of a line for which yieldsRule holds
ruleOf(line) ==
    LET parts == splitArrow(trim(line))
    IN  [keyword |-> toLowerCase(trim(parts[1])),
         category |-> toUpperCase(trim(parts[2]))]

parseRules(text) ==
    LET kept == SelectSeq(splitLines(text), yieldsRule)
    IN  [i \in 1..Len(kept) |-> ruleOf(kept[i])]

----------------------------------------------------------------------------
(* matchesKeyword                                                          *)

\* the characters outside the class [^A-Za-z0-9&._]
TokenChars == CharsOf(LowerLetters) \cup CharsOf(UpperLetters) \cup CharsOf(Digits)
              \cup {"&", ".", "_"}

\* a character the regex `delim` matches
isDelim(c) == c \notin TokenChars

\* s.split(/\s+/).filter(Boolean)
RECURSIVE splitWhitespace(_)
splitWhitespace(s) ==
    LET t == trimStart(s)
    IN  IF t = "" THEN <<>>
        ELSE LET ends == {i \in 1..Len(t) : IsSpace(Ch(t, i))}
                 e == IF ends = {} THEN Len(t) + 1
                      ELSE CHOOSE i \in ends : \A j \in ends : i <= j
             IN  <<SubSeq(t, 1, e - 1)>> \o splitWhitespace(SubSeq(t, e, Len(t)))

\* the literal tok stands in text at position p
occursAt(text, tok, p) ==
    /\ p >= 1
    /\ p + Len(tok) - 1 <= Len(text)
    /\ SubSeq(text, p, p + Len(tok) - 1) = tok

\* (?:^|delim) in front of position p
boundaryBefore(text, p) == p = 1 \/ isDelim(Ch(text, p - 1))

\* (?:delim|$) at position p
boundaryAt(text, p) == p = Len(text) + 1 \/ isDelim(Ch(text, p))

\* (?:delim)+ fills text[from .. to-1]
delimRun(text, from, to) ==
    /\ to > from
    /\ \A k \in from..(to - 1) : isDelim(Ch(text, k))

\* tokenTest without the boundaries
tokenTestSubstring(text, tok) == \E p \in 1..Len(text) : occursAt(text, tok, p)

\* new RegExp(`(?:^|${delim})${safe}(?:${delim}|$)`, 'i').test(text)
tokenTest(text, tok) ==
    \E p \in 1..Len(text) :
        /\ occursAt(text, tok, p)
        /\ boundaryBefore(text, p)
        /\ boundaryAt(text, p + Len(tok))

\* threeTokenTest that looks for each token on its own
threeTokenTestAnyOrder(text, t) ==
    \A i \in 1..3 :
        \E p \in 1..Len(text) :
            /\ occursAt(text, t[i], p)
            /\ boundaryBefore(text, p)
            /\ boundaryAt(text, p + Len(t[i]))

\* the regex built for a keyword of three tokens
threeTokenTest(text, t) ==
    \E p1 \in 1..Len(text) :
        /\ occursAt(text, t[1], p1)
        /\ boundaryBefore(text, p1)
        /\ \E p2 \in (p1 + Len(t[1]) + 1)..Len(text) :
              /\ delimRun(text, p1 + Len(t[1]), p2)
              /\ occursAt(text, t[2], p2)
              /\ \E p3 \in (p2 + Len(t[2]) + 1)..Len(text) :
                    /\ delimRun(text, p2 + Len(t[2]), p3)
                    /\ occursAt(text, t[3], p3)
                    /\ boundaryAt(text, p3 + Len(t[3]))

\* matchesKeyword that tests the first token only
matchesKeywordFirstToken(descLower, keywordLower) ==
    LET text == toLowerCase(descLower)
        tokens == splitWhitespace(toLowerCase(keywordLower))
    IN  IF keywordLower = "" \/ Len(tokens) = 0 THEN FALSE
        ELSE IF Len(tokens) = 3 THEN threeTokenTest(text, tokens)
        ELSE tokenTest(text, tokens[1])

matchesKeyword(descLower, keywordLower) ==
    LET text == toLowerCase(descLower)
        tokens == splitWhitespace(toLowerCase(keywordLower))
    IN  IF keywordLower = "" \/ Len(tokens) = 0 THEN FALSE
        ELSE IF Len(tokens) = 3 THEN threeTokenTest(text, tokens)
        ELSE \A i \in 1..Len(tokens) : tokenTest(text, tokens[i])

\* a call matchesKeyword(descLower, keywordLower) with the pair in arg
MatchesKeyword ==
    /\ op = "none"
    /\ op' = "matchesKeyword"
    /\ ret' = matchesKeyword(arg[1], arg[2])
    /\ UNCHANGED <<pc, rulesBox, lsRules, INITIAL_RULES, RULES_CHANGED, CURRENT_TXNS,
                   CURRENT_RULES, arg, original, inputEvents, txnVars>>

----------------------------------------------------------------------------
(* deriveKeywordFromTxn                                                    *)

\* (s.match(/[A-Za-z0-9&._]+/g) || []): the runs of token characters of s
RECURSIVE matchTokens(_)
matchTokens(s) ==
    LET cut(n) ==
            IF n = 0 THEN matchTokens(Tail(s))
            ELSE <<SubSeq(s, 1, n)>> \o matchTokens(SubSeq(s, n + 1, Len(s)))
    IN  IF s = "" THEN <<>>
        ELSE cut(span(s, TokenChars))

\* deriveKeywordFromTxn that does not keep the index behind 'visa' within
\* the tokens
deriveKeywordFromTxnNoClamp(txn) ==
    LET min(a, b) == IF a < b THEN a ELSE b
        \* tokens.slice(k, k + 3) in capitals joined by a space (k from 0)
        join3(tokens, k) ==
            join([i \in 1..(min(k + 3, Len(tokens)) - k) |-> toUpperCase(tokens[k + i])], " ")
        \* tokens.indexOf(tok), from 0; -1 when tok is no token
        tokenIndex(tokens, tok) ==
            IF \A i \in 1..Len(tokens) : tokens[i] # tok THEN -1
            ELSE (CHOOSE i \in 1..Len(tokens) :
                     tokens[i] = tok /\ \A j \in 1..(i - 1) : tokens[j] # tok) - 1
        \* /\bVISA-/.test(up)
        hasVisaPrefix(up) ==
            \E p \in 1..Len(up) :
                /\ occursAt(up, "VISA-", p)
                /\ p = 1 \/ Ch(up, p - 1) \notin (TokenChars \ {"&", "."})
        derive(desc, tokens) ==
            IF desc = "" \/ tokens = <<>> THEN ""
            ELSE IF tokenIndex(tokens, "paypal") # -1
            THEN join3(tokens, tokenIndex(tokens, "paypal"))
            ELSE IF hasVisaPrefix(toUpperCase(desc)) /\ tokenIndex(tokens, "visa") # -1
            THEN join3(tokens, tokenIndex(tokens, "visa") + 1)
            ELSE join3(tokens, 0)
        lower(tokens) == [i \in 1..Len(tokens) |-> toLowerCase(tokens[i])]
    IN  derive(trim(txn.description), lower(matchTokens(trim(txn.description))))

deriveKeywordFromTxn(txn) ==
    LET min(a, b) == IF a < b THEN a ELSE b
        \* tokens.slice(k, k + 3) in capitals joined by a space (k from 0)
        join3(tokens, k) ==
            join([i \in 1..(min(k + 3, Len(tokens)) - k) |-> toUpperCase(tokens[k + i])], " ")
        \* tokens.indexOf(tok), from 0; -1 when tok is no token
        tokenIndex(tokens, tok) ==
            IF \A i \in 1..Len(tokens) : tokens[i] # tok THEN -1
            ELSE (CHOOSE i \in 1..Len(tokens) :
                     tokens[i] = tok /\ \A j \in 1..(i - 1) : tokens[j] # tok) - 1
        \* /\bVISA-/.test(up)
        hasVisaPrefix(up) ==
            \E p \in 1..Len(up) :
                /\ occursAt(up, "VISA-", p)
                /\ p = 1 \/ Ch(up, p - 1) \notin (TokenChars \ {"&", "."})
        derive(desc, tokens) ==
            IF desc = "" \/ tokens = <<>> THEN ""
            ELSE IF tokenIndex(tokens, "paypal") # -1
            THEN join3(tokens, tokenIndex(tokens, "paypal"))
            ELSE IF hasVisaPrefix(toUpperCase(desc)) /\ tokenIndex(tokens, "visa") # -1
            THEN join3(tokens, min(tokenIndex(tokens, "visa") + 1, Len(tokens) - 1))
            ELSE join3(tokens, 0)
        lower(tokens) == [i \in 1..Len(tokens) |-> toLowerCase(tokens[i])]
    IN  derive(trim(txn.description), lower(matchTokens(trim(txn.description))))

\* a call deriveKeywordFromTxn(txn) with the transaction in arg
DeriveKeywordFromTxn ==
    /\ op = "none"
    /\ op' = "deriveKeywordFromTxn"
    /\ ret' = deriveKeywordFromTxn(arg)
    /\ UNCHANGED <<pc, rulesBox, lsRules, INITIAL_RULES, RULES_CHANGED, CURRENT_TXNS,
                   CURRENT_RULES, arg, original, inputEvents, txnVars>>

----------------------------------------------------------------------------
(* categorise                                                              *)

\* Amounts are counted in cents.  A transaction is
\* [date, amount, description, category]; category "" stands for a
\* transaction no category was assigned to yet.

abs(n) == IF n < 0 THEN -n ELSE n

\* the PETROL special case applies to amounts of at most this many dollars
PetrolLimit == 2

\* scanRules that keeps the first match
RECURSIVE scanRulesFirstWins(_, _, _)
scanRulesFirstWins(descLower, rules, matched) ==
    IF Len(rules) = 0 \/ matched # "" THEN matched
    ELSE scanRulesFirstWins(descLower, Tail(rules),
                            IF matchesKeyword(descLower, Head(rules).keyword)
                            THEN Head(rules).category ELSE matched)

\* the loop over the rules: `matched` after the rules were scanned, with ""
\* for null
RECURSIVE scanRules(_, _, _)
scanRules(descLower, rules, matched) ==
    IF Len(rules) = 0 THEN matched
    ELSE scanRules(descLower, Tail(rules),
                   IF matchesKeyword(descLower, Head(rules).keyword)
                   THEN Head(rules).category ELSE matched)

\* petrolOverride with < in place of <=
petrolOverrideBelow(matched, amount) ==
    IF matched # "" /\ toUpperCase(matched) = "PETROL" /\ amount < PetrolLimit * 100
    THEN "COFFEE" ELSE matched

\* if (matched && matched.toUpperCase() === "PETROL" && amount <= 2) matched = "COFFEE"
petrolOverride(matched, amount) ==
    IF matched # "" /\ toUpperCase(matched) = "PETROL" /\ amount <= PetrolLimit * 100
    THEN "COFFEE" ELSE matched

\* orUncategorised without the fallback
orNothing(matched) == matched

\* t.category = matched || "UNCATEGORISED"
orUncategorised(matched) == IF matched = "" THEN "UNCATEGORISED" ELSE matched

categoriseOne(t, rules) ==
    LET descLower == toLowerCase(t.description)
        amount == abs(t.amount)
        matched == scanRules(descLower, rules, "")
    IN  [t EXCEPT !.category = orUncategorised(petrolOverride(matched, amount))]

categorise(txns, rules) == [i \in 1..Len(txns) |-> categoriseOne(txns[i], rules)]

----------------------------------------------------------------------------
(* computeCategoryTotals                                                   *)

\* the sum of a sequence of numbers
RECURSIVE sumOf(_)
sumOf(ns) == IF ns = <<>> THEN 0 ELSE Head(ns) + sumOf(Tail(ns))

\* the entries <<category, total>> of the Map byCat after the loop over the
\* transactions, in the order the categories were first set
RECURSIVE byCatEntries(_, _)
byCatEntries(byCat, txns) ==
    IF txns = <<>> THEN byCat
    ELSE LET set(cat, amount, at) ==
                 IF at = {} THEN Append(byCat, <<cat, amount>>)
                 ELSE [byCat EXCEPT ![CHOOSE i \in at : TRUE][2] = @ + amount]
             add(cat, amount) ==
                 set(cat, amount, {i \in 1..Len(byCat) : byCat[i][1] = cat})
             t == Head(txns)
         IN  byCatEntries(add(toUpperCase(IF t.category = "" THEN "UNCATEGORISED"
                                          ELSE t.category), t.amount),
                          Tail(txns))

\* computeCategoryTotals without the sort of the rows
computeCategoryTotalsUnsorted(txns) ==
    LET result(rows) ==
            [rows |-> rows, grand |-> sumOf([k \in 1..Len(rows) |-> rows[k][2]])]
    IN  result(byCatEntries(<<>>, txns))

\* { rows, grand }: the entries sorted by (a, b) => b[1] - a[1], a stable
\* sort, and the sum of the totals of the rows
computeCategoryTotals(txns) ==
    LET sorted(es) ==
            LET before(i, j) == es[i][2] > es[j][2] \/ (es[i][2] = es[j][2] /\ i < j)
                rank(j) == Cardinality({i \in 1..Len(es) : before(i, j)}) + 1
            IN  [k \in 1..Len(es) |-> es[CHOOSE j \in 1..Len(es) : rank(j) = k]]
        result(rows) ==
            [rows |-> rows, grand |-> sumOf([k \in 1..Len(rows) |-> rows[k][2]])]
    IN  result(sorted(byCatEntries(<<>>, txns)))

\* a call computeCategoryTotals(txns) with the list in arg
ComputeCategoryTotals ==
    /\ op = "none"
    /\ op' = "computeCategoryTotals"
    /\ ret' = computeCategoryTotals(arg)
    /\ UNCHANGED <<pc, rulesBox, lsRules, INITIAL_RULES, RULES_CHANGED, CURRENT_TXNS,
                   CURRENT_RULES, arg, original, inputEvents, txnVars>>

----------------------------------------------------------------------------
(* parseAmount                                                             *)

\* toNumber that reads the number the text starts with, as parseFloat does
toNumberPrefix(s) ==
    LET units(body) ==
            IF span(body, CharsOf(Digits)) = 0 THEN <<>>
            ELSE <<digitsValue(SubSeq(body, 1, span(body, CharsOf(Digits)))) * 100>>
    IN  IF s # "" /\ Ch(s, 1) = "-"
        THEN (IF units(Tail(s)) = <<>> THEN <<>> ELSE <<-units(Tail(s))[1]>>)
        ELSE units(s)

\* Number(s) for a text of digits, '-' and '.': <<the value in cents>>, and
\* <<>> for NaN, when the text is not a numeric literal.  Fraction digits
\* behind the second are beyond the cent and are not counted.
toNumber(s) ==
    LET neg == s # "" /\ Ch(s, 1) = "-"
        body == IF neg THEN Tail(s) ELSE s
        n == span(body, CharsOf(Digits))
        rest == SubSeq(body, n + 1, Len(body))
        frac == IF rest = "" THEN "" ELSE Tail(rest)
        cents == digitsValue(SubSeq(body, 1, n)) * 100
                 + digitsValue(SubSeq(frac \o "00", 1, 2))
    IN  IF s = "" THEN <<0>>
        ELSE IF /\ rest = "" \/ Ch(rest, 1) = "."
                /\ span(frac, CharsOf(Digits)) = Len(frac)
                /\ n + Len(frac) > 0
        THEN <<IF neg THEN -cents ELSE cents>>
        ELSE <<>>

\* s.replace(/[^\d\-,.]/g, '').replace(/,/g, ''), then Number(s) || 0
parseAmount(s) ==
    LET n == toNumber(keepChars(s, CharsOf(Digits) \cup {"-", "."}))
    IN  IF n = <<>> THEN 0 ELSE n[1]

\* a call parseAmount(s) with <<>> (for null) or <<s>> in arg
ParseAmount ==
    /\ op = "none"
    /\ op' = "parseAmount"
    /\ ret' = IF arg = <<>> THEN 0 ELSE parseAmount(arg[1])
    /\ UNCHANGED <<pc, rulesBox, lsRules, INITIAL_RULES, RULES_CHANGED, CURRENT_TXNS,
                   CURRENT_RULES, arg, original, inputEvents, txnVars>>

----------------------------------------------------------------------------
(* parseDateSmart and yyyymm                                               *)

daysInMonth(y, m) ==
    IF m = 2 THEN (IF (y % 4 = 0 /\ y % 100 # 0) \/ y % 400 = 0 THEN 29 ELSE 28)
    ELSE IF m \in {4, 6, 9, 11} THEN 30 ELSE 31

\* the calendar day `d` days after the last day of the month before month m
\* (1..12) of year y
RECURSIVE rollDays(_, _, _)
rollDays(y, m, d) ==
    IF d < 1 THEN (IF m = 1 THEN rollDays(y - 1, 12, d + 31)
                   ELSE rollDays(y, m - 1, d + daysInMonth(y, m - 1)))
    ELSE IF d > daysInMonth(y, m)
         THEN (IF m = 12 THEN rollDays(y + 1, 1, d - 31)
               ELSE rollDays(y, m + 1, d - daysInMonth(y, m)))
    ELSE [year |-> y, month |-> m, day |-> d]

\* new Date(year, monthIndex, day): a year 0..99 counts from 1900, a month
\* index or a day out of range rolls over
newDate(year, monthIndex, day) ==
    LET y0 == IF year \in 0..99 THEN 1900 + year ELSE year
        mm == y0 * 12 + monthIndex
    IN  rollDays(mm \div 12, (mm % 12) + 1, day)

\* Matching a regular expression at the start of s, without regard to
\* case.  A pattern is a sequence of items: <<"class", cs, lo, hi, cap>> is
\* lo to hi characters of the set cs, as many as there are (hi < 0: any
\* number); <<"alt", words, optional, cap>> is one of the lower-case words;
\* <<"end">> is the end of the text.  cap tells whether the item is a
\* capture group.  The result is <<[caps, rest]>>, the captured texts and
\* the text behind the match, or <<>> when there is no match.
RECURSIVE reMatch(_, _, _)
reMatch(s, pat, caps) ==
    IF pat = <<>> THEN <<[caps |-> caps, rest |-> s]>>
    ELSE LET it == Head(pat)
             run == IF it[1] # "class" THEN 0
                    ELSE IF it[4] < 0 \/ span(s, it[2]) < it[4] THEN span(s, it[2])
                    ELSE it[4]
             words == IF it[1] # "alt" THEN {}
                      ELSE {w \in it[2] : startsWith(toLowerCase(s), w)}
             n == IF words # {} THEN Len(CHOOSE w \in words : TRUE) ELSE run
             ok == \/ it[1] = "end" /\ s = ""
                   \/ it[1] = "class" /\ run >= it[3]
                   \/ it[1] = "alt" /\ (words # {} \/ it[3])
             cap == it[1] # "end" /\ it[Len(it)] /\ (it[1] = "class" \/ words # {})
         IN  IF ok
             THEN reMatch(SubSeq(s, n + 1, Len(s)), Tail(pat),
                          IF cap THEN Append(caps, SubSeq(s, 1, n)) ELSE caps)
             ELSE <<>>

\* the characters \s matches in the texts of the model
whitespace == {" ", "\t", "\r", "\n"}

\* str.replace(/^\d{1,2}:\d{2}\s*(am|pm)\s*/i, '')
stripTime(str) ==
    LET m == reMatch(str, << <<"class", CharsOf(Digits), 1, 2, FALSE>>,
                             <<"class", {":"}, 1, 1, FALSE>>,
                             <<"class", CharsOf(Digits), 2, 2, FALSE>>,
                             <<"class", whitespace, 0, -1, FALSE>>,
                             <<"alt", {"am", "pm"}, FALSE, TRUE>>,
                             <<"class", whitespace, 0, -1, FALSE>> >>, <<>>)
    IN  IF m = <<>> THEN str ELSE m[1].rest

monthMap ==
    [january |-> 0, february |-> 1, march |-> 2, april |-> 3, may |-> 4, june |-> 5,
     july |-> 6, august |-> 7, september |-> 8, october |-> 9, november |-> 10,
     december |-> 11]

\* the two numeric patterns: three runs of digits separated by '/' or '-',
\* nothing else; <<first, second, third>> or <<>>
numericDate(str) ==
    LET m == reMatch(str, << <<"class", CharsOf(Digits), 1, -1, TRUE>>,
                             <<"class", {"/", "-"}, 1, 1, FALSE>>,
                             <<"class", CharsOf(Digits), 1, -1, TRUE>>,
                             <<"class", {"/", "-"}, 1, 1, FALSE>>,
                             <<"class", CharsOf(Digits), 1, -1, TRUE>>,
                             <<"end">> >>, <<>>)
    IN  IF m = <<>> THEN <<>> ELSE m[1].caps

\* the natural-language pattern, matched without case at the start of s2:
\* an optional weekday, D, a month name, an optional comma, YYYY;
\* <<day, month name in lower case, year>> or <<>>
naturalDate(s2) ==
    LET m == reMatch(s2, << <<"alt", {"mon", "tue", "wed", "thu", "fri", "sat", "sun"},
                               TRUE, FALSE>>,
                            <<"class", whitespace, 0, -1, FALSE>>,
                            <<"class", CharsOf(Digits), 1, 2, TRUE>>,
                            <<"class", whitespace, 1, -1, FALSE>>,
                            <<"alt", DOMAIN monthMap, FALSE, TRUE>>,
                            <<"class", {","}, 0, 1, FALSE>>,
                            <<"class", whitespace, 1, -1, FALSE>>,
                            <<"class", CharsOf(Digits), 4, 4, TRUE>> >>, <<>>)
    IN  IF m = <<>> THEN <<>>
        ELSE <<m[1].caps[1], toLowerCase(m[1].caps[2]), m[1].caps[3]>>

\* parseDateSmart that reads the second pattern as MM/DD/YYYY
parseDateSmartMonthFirst(s) ==
    LET numeric(m) ==
            IF m # <<>> /\ Len(m[1]) = 4 /\ Len(m[2]) <= 2 /\ Len(m[3]) <= 2
            THEN <<newDate(digitsValue(m[1]), digitsValue(m[2]) - 1, digitsValue(m[3]))>>
            ELSE IF m # <<>> /\ Len(m[1]) <= 2 /\ Len(m[2]) <= 2 /\ Len(m[3]) = 4
            THEN <<newDate(digitsValue(m[3]), digitsValue(m[1]) - 1, digitsValue(m[2]))>>
            ELSE <<>>
        natural(m) ==
            IF m # <<>>
            THEN <<newDate(digitsValue(m[3]), monthMap[m[2]], digitsValue(m[1]))>>
            ELSE <<>>
        firstOf(d1, d2) == IF d1 # <<>> THEN d1 ELSE d2
        parse(str) == firstOf(numeric(numericDate(str)), natural(naturalDate(stripTime(str))))
    IN  IF s = "" THEN <<>> ELSE parse(trim(s))

\* parseDateSmart(s): <<the date>>, or <<>> for null
parseDateSmart(s) ==
    LET numeric(m) ==
            IF m # <<>> /\ Len(m[1]) = 4 /\ Len(m[2]) <= 2 /\ Len(m[3]) <= 2
            THEN <<newDate(digitsValue(m[1]), digitsValue(m[2]) - 1, digitsValue(m[3]))>>
            ELSE IF m # <<>> /\ Len(m[1]) <= 2 /\ Len(m[2]) <= 2 /\ Len(m[3]) = 4
            THEN <<newDate(digitsValue(m[3]), digitsValue(m[2]) - 1, digitsValue(m[1]))>>
            ELSE <<>>
        natural(m) ==
            IF m # <<>>
            THEN <<newDate(digitsValue(m[3]), monthMap[m[2]], digitsValue(m[1]))>>
            ELSE <<>>
        firstOf(d1, d2) == IF d1 # <<>> THEN d1 ELSE d2
        parse(str) == firstOf(numeric(numericDate(str)), natural(naturalDate(stripTime(str))))
    IN  IF s = "" THEN <<>> ELSE parse(trim(s))

\* a call parseDateSmart(s) with the text in arg
ParseDateSmart ==
    /\ op = "none"
    /\ op' = "parseDateSmart"
    /\ ret' = parseDateSmart(arg)
    /\ UNCHANGED <<pc, rulesBox, lsRules, INITIAL_RULES, RULES_CHANGED, CURRENT_TXNS,
                   CURRENT_RULES, arg, original, inputEvents, txnVars>>

\* `${d.getFullYear()}-${String(d.getMonth()+1).padStart(2,'0')}`
yyyymm(d) ==
    ToString(d.year) \o "-" \o (IF d.month < 10 THEN "0" ELSE "") \o ToString(d.month)

----------------------------------------------------------------------------
(* The document-text scan: normalisePdfDate and parseWestpacPdfText.       *)

months ==
    [Jan |-> "01", Feb |-> "02", Mar |-> "03", Apr |-> "04", May |-> "05",
     Jun |-> "06", Jul |-> "07", Aug |-> "08", Sep |-> "09", Oct |-> "10",
     Nov |-> "11", Dec |-> "12"]

\* `${year}-${months[mon]}-${day.padStart(2,'0')}` with [day, mon, year] the
\* first three pieces of d.split(' '); a piece that is missing and a month
\* that is not a key of `months` come out as the text 'undefined'
normalisePdfDate(d) ==
    LET parts == split(d, " ")
        piece(i) == IF i <= Len(parts) THEN parts[i] ELSE "undefined"
        day == parts[1]
        mon == IF Len(parts) >= 2 /\ parts[2] \in DOMAIN months
               THEN months[parts[2]] ELSE "undefined"
    IN  piece(3) \o "-" \o mon \o "-" \o (IF Len(day) < 2 THEN "0" ELSE "") \o
        (IF Len(day) < 1 THEN "0" ELSE "") \o day

\* line.match(/^(\d{1,2}\s+[A-Za-z]{3}\s+\d{4})$/)
isPdfDateLine(line) ==
    LET spaces == {" ", "\t", "\r", "\n"}
        letters == CharsOf(LowerLetters) \cup CharsOf(UpperLetters)
        d == span(line, CharsOf(Digits))
        r1 == SubSeq(line, d + 1, Len(line))
        w1 == span(r1, spaces)
        r2 == SubSeq(r1, w1 + 1, Len(r1))
        r3 == SubSeq(r2, 4, Len(r2))
        w2 == span(r3, spaces)
        r4 == SubSeq(r3, w2 + 1, Len(r3))
    IN  /\ d \in {1, 2}
        /\ w1 >= 1
        /\ span(r2, letters) = 3
        /\ w2 >= 1
        /\ Len(r4) = 4
        /\ span(r4, CharsOf(Digits)) = 4

\* line.match(/^-?\$?\d+\.\d{2}$/)
isPdfAmountLine(line) ==
    LET r1 == IF line # "" /\ Ch(line, 1) = "-" THEN Tail(line) ELSE line
        r2 == IF r1 # "" /\ Ch(r1, 1) = "$" THEN Tail(r1) ELSE r1
        n == span(r2, CharsOf(Digits))
        r3 == SubSeq(r2, n + 1, Len(r2))
    IN  /\ n >= 1
        /\ Len(r3) = 3
        /\ Ch(r3, 1) = "."
        /\ span(Tail(r3), CharsOf(Digits)) = 2

\* /^(withdrawal|deposit|date|description)$/i.test(line)
isPdfHeaderLine(line) ==
    toLowerCase(line) \in {"withdrawal", "deposit", "date", "description"}

\* /^PAYMENT[- ]BPAY/i.test(description)
isPaymentBpay(description) ==
    \/ startsWith(toLowerCase(description), "payment-bpay")
    \/ startsWith(toLowerCase(description), "payment bpay")

\* text.split(/\n+/).map(l => l.trim()).filter(Boolean)
pdfLines(text) ==
    LET raw == split(text, "\n")
    IN  SelectSeq([i \in 1..Len(raw) |-> trim(raw[i])], LAMBDA l : l # "")

\* openRecord that keeps the description lines gathered so far
openRecordKeepDesc(st, line) ==
    [st EXCEPT !.curDate = normalisePdfDate(line)]

\* a date line: curDate = normalisePdfDate(...); curDesc = []
openRecord(st, line) ==
    [st EXCEPT !.curDate = normalisePdfDate(line), !.curDesc = <<>>]

\* closeRecord that leaves the date pending
closeRecordKeepDate(st, line) ==
    LET description == trim(join(st.curDesc, " "))
        amount == abs(parseAmount(line))
    IN  [st EXCEPT !.curDesc = <<>>,
                   !.txns = IF isPaymentBpay(description) THEN @
                            ELSE Append(@, [date |-> st.curDate, amount |-> amount,
                                            description |-> description,
                                            category |-> ""])]

\* closeRecord that emits the repayments too
closeRecordEmitAll(st, line) ==
    [st EXCEPT !.curDate = "", !.curDesc = <<>>,
               !.txns = Append(@, [date |-> st.curDate,
                                   amount |-> abs(parseAmount(line)),
                                   description |-> trim(join(st.curDesc, " ")),
                                   category |-> ""])]

\* an amount line while a date is pending: the record is emitted, or
\* discarded when it is a repayment; curDate = null; curDesc = []
closeRecord(st, line) ==
    LET description == trim(join(st.curDesc, " "))
        amount == abs(parseAmount(line))
    IN  [st EXCEPT !.curDate = "", !.curDesc = <<>>,
                   !.txns = IF isPaymentBpay(description) THEN @
                            ELSE Append(@, [date |-> st.curDate, amount |-> amount,
                                            description |-> description,
                                            category |-> ""])]

\* the body of the loop over the lines; curDate "" stands for null
scanLine(st, line) ==
    IF isPdfDateLine(line) THEN openRecord(st, line)
    ELSE IF isPdfAmountLine(line) /\ st.curDate # "" THEN closeRecord(st, line)
    ELSE IF st.curDate # "" /\ ~isPdfHeaderLine(line)
         THEN [st EXCEPT !.curDesc = Append(@, line)]
    ELSE st

RECURSIVE scanLines(_, _)
scanLines(st, lines) ==
    IF Len(lines) = 0 THEN st
    ELSE scanLines(scanLine(st, Head(lines)), Tail(lines))

parseWestpacPdfText(text) ==
    scanLines([curDate |-> "", curDesc |-> <<>>, txns |-> <<>>], pdfLines(text)).txns

\* a call parseWestpacPdfText(text) with the text in arg
ParseWestpacPdfText ==
    /\ op = "none"
    /\ op' = "parseWestpacPdfText"
    /\ ret' = parseWestpacPdfText(arg)
    /\ UNCHANGED <<pc, rulesBox, lsRules, INITIAL_RULES, RULES_CHANGED, CURRENT_TXNS,
                   CURRENT_RULES, arg, original, inputEvents, txnVars>>

----------------------------------------------------------------------------
(* Loading transactions: loadCsvText, the PDF import, and the pass that    *)
(* follows a load (saveTxnsToLocalStorage, rebuildMonthDropdown,           *)
(* applyRulesAndRender).                                                   *)

\* the month 'YYYY-MM' of a transaction, "" when its date does not parse
monthOf(t) ==
    LET month(d) == IF d = <<>> THEN "" ELSE yyyymm(d[1]) IN month(parseDateSmart(t.date))

\* Array.prototype.sort() of strings made of digits and '-': by code unit
RECURSIVE codeUnitLess(_, _)
codeUnitLess(a, b) ==
    IF b = "" THEN FALSE
    ELSE IF a = "" THEN TRUE
    ELSE LET wa == IndexIn("-0123456789", Ch(a, 1))
             wb == IndexIn("-0123456789", Ch(b, 1))
         IN  wa < wb \/ (wa = wb /\ codeUnitLess(Tail(a), Tail(b)))

\* rebuildMonthDropdown: the options and the value of the <select>
rebuildMonthDropdown(txns, monthFilter) ==
    LET dropdown(found) ==
            [options |-> [n \in 1..Cardinality(found) |->
                            CHOOSE m \in found :
                                Cardinality({o \in found : codeUnitLess(o, m)}) = n - 1],
             value |-> IF monthFilter # "" /\ monthFilter \in found
                       THEN monthFilter ELSE ""]
    IN  dropdown({monthOf(txns[i]) : i \in 1..Len(txns)} \ {""})

\* monthFilteredTxns(): the positions in CURRENT_TXNS of the transactions of
\* the selected month, of all of them when no month is selected
monthFilteredTxns(txns, monthFilter) ==
    {i \in 1..Len(txns) : monthFilter = "" \/ monthOf(txns[i]) = monthFilter}

\* Math.max(1, Math.ceil(filtered.length / PAGE_SIZE)) for a list of `shown` rows
totalPages(shown) ==
    IF shown = 0 THEN 1 ELSE (shown + PAGE_SIZE - 1) \div PAGE_SIZE

\* renderTransactionsTable and the renderPager it ends with, for a list of
\* `shown` rows (no category filter is set): CURRENT_PAGE is clamped to the
\* pages of the list, and the first call binds the 'wheel' listener, whose
\* closure keeps the `pages` of that call
renderTransactionsTable(shown, page, wheel) ==
    [page |-> IF page > totalPages(shown) THEN totalPages(shown)
              ELSE IF page < 1 THEN 1 ELSE page,
     wheel |-> IF wheel = 0 THEN totalPages(shown) ELSE wheel]

\* applyRulesAndRender: the rules are parsed from the box, the transactions
\* monthFilteredTxns() returns are categorised in place
applyRulesAndRender(txns, box, monthFilter) ==
    LET rules == parseRules(box)
    IN  [rules |-> rules,
         txns |-> [i \in 1..Len(txns) |->
                     IF monthFilter = "" \/ monthOf(txns[i]) = monthFilter
                     THEN categoriseOne(txns[i], rules) ELSE txns[i]]]

\* the columns loadCsvText reads: the first header a name pattern matches,
\* else the header at a fixed position, "" when there is none
resolveFields(headers) ==
    LET first(test(_), fallback) ==
            LET hits == {k \in 1..Len(headers) : test(headers[k])}
            IN  IF hits # {} THEN headers[CHOOSE k \in hits : \A j \in hits : k <= j]
                ELSE IF fallback <= Len(headers) THEN headers[fallback] ELSE ""
        has(h, pat) == indexOf(toLowerCase(h), pat, 1) # 0
        long == {k \in 1..Len(headers) : has(headers[k], "long description")}
    IN  [date |-> first(LAMBDA h : has(h, "effective date"), 3),
         debit |-> first(LAMBDA h : has(h, "debit amount"), 6),
         desc |-> IF long # {} THEN headers[CHOOSE k \in long : \A j \in long : k <= j]
                  ELSE first(LAMBDA h : toLowerCase(h) = "description", 10)]

\* r[field], '' for a field the row does not have
cellOf(r, field) == IF field \in DOMAIN r THEN r[field] ELSE ""

\* keepsRow without the test of the amount
keepsRowAnyAmount(r, f) ==
    cellOf(r, f.date) # "" \/ trim(cellOf(r, f.desc)) # ""

\* (effectiveDate || longDesc) && Number.isFinite(debit) && debit !== 0
keepsRow(r, f) ==
    /\ cellOf(r, f.date) # "" \/ trim(cellOf(r, f.desc)) # ""
    /\ parseAmount(cellOf(r, f.debit)) # 0

\* the `txns` loadCsvText builds from the parsed file
csvTxns(file) ==
    LET f == resolveFields(file.fields)
        kept == SelectSeq(file.data, LAMBDA r : keepsRow(r, f))
    IN  [i \in 1..Len(kept) |->
            [date |-> cellOf(kept[i], f.date),
             amount |-> parseAmount(cellOf(kept[i], f.debit)),
             description |-> trim(cellOf(kept[i], f.desc)),
             category |-> ""]]

\* loadCsvText(csvText), `file` being what Papa.parse makes of the text
LoadCsvText(file) ==
    /\ pc = "ready"
    /\ \E txns \in {csvTxns(file)} :
          /\ \E r \in {applyRulesAndRender(txns, rulesBox, MONTH_FILTER)} :
                /\ CURRENT_TXNS' = r.txns
                /\ lsTxns' = r.txns
                /\ CURRENT_RULES' = r.rules
                /\ ret' = r.txns
          /\ monthDropdown' = rebuildMonthDropdown(txns, MONTH_FILTER)
          /\ \E p \in {renderTransactionsTable(
                            Cardinality(monthFilteredTxns(txns, MONTH_FILTER)),
                            1, wheelPages)} :
                /\ CURRENT_PAGE' = p.page
                /\ wheelPages' = p.wheel
    /\ lsRules' = rulesBox
    /\ alertMsg' = ""
    /\ op' = "loadCsvText"
    /\ arg' = file
    /\ inputEvents' = 0
    /\ UNCHANGED <<pc, rulesBox, INITIAL_RULES, RULES_CHANGED, original, MONTH_FILTER>>

\* pdfImport that goes on when no transaction was found
pdfImportAlways(found, cur) ==
    LET txns == [i \in 1..Len(found) |-> [found[i] EXCEPT !.amount = abs(@)]]
        r == applyRulesAndRender(txns, cur.box, cur.monthFilter)
    IN  [txns |-> r.txns, lsTxns |-> r.txns, rules |-> r.rules, lsRules |-> cur.box,
         dropdown |-> rebuildMonthDropdown(txns, cur.monthFilter),
         alert |-> IF Len(found) = 0 THEN "No transactions found in PDF" ELSE ""]

\* the 'change' handler of the PDF input from `const txns = ...` on: what it
\* leaves of the state `cur` when the scan found the transactions `found`
pdfImport(found, cur) ==
    IF Len(found) = 0
    THEN [txns |-> cur.txns, lsTxns |-> cur.lsTxns, rules |-> cur.rules,
          lsRules |-> cur.lsRules, dropdown |-> cur.dropdown,
          alert |-> "No transactions found in PDF"]
    ELSE LET txns == [i \in 1..Len(found) |-> [found[i] EXCEPT !.amount = abs(@)]]
             r == applyRulesAndRender(txns, cur.box, cur.monthFilter)
         IN  [txns |-> r.txns, lsTxns |-> r.txns, rules |-> r.rules,
              lsRules |-> cur.box,
              dropdown |-> rebuildMonthDropdown(txns, cur.monthFilter),
              alert |-> ""]

\* the 'change' event of the PDF input, `text` being the text of the pages
PdfInputChange(text) ==
    /\ pc = "ready"
    /\ \E found \in {parseWestpacPdfText(text)} :
          /\ \E r \in {pdfImport(found,
                                 [txns |-> CURRENT_TXNS, lsTxns |-> lsTxns,
                                  rules |-> CURRENT_RULES, lsRules |-> lsRules,
                                  dropdown |-> monthDropdown, box |-> rulesBox,
                                  monthFilter |-> MONTH_FILTER])} :
                /\ CURRENT_TXNS' = r.txns
                /\ lsTxns' = r.lsTxns
                /\ CURRENT_RULES' = r.rules
                /\ lsRules' = r.lsRules
                /\ monthDropdown' = r.dropdown
                /\ alertMsg' = r.alert
          /\ \E p \in {IF Len(found) = 0
                        THEN [page |-> CURRENT_PAGE, wheel |-> wheelPages]
                        ELSE renderTransactionsTable(
                                Cardinality(monthFilteredTxns(found, MONTH_FILTER)),
                                1, wheelPages)} :
                /\ CURRENT_PAGE' = p.page
                /\ wheelPages' = p.wheel
          /\ ret' = found
    /\ op' = "pdfImport"
    /\ arg' = ""
    /\ inputEvents' = 0
    /\ UNCHANGED <<pc, rulesBox, INITIAL_RULES, RULES_CHANGED, original, MONTH_FILTER>>

----------------------------------------------------------------------------
(* The handlers that read and write the rules box.                         *)

numLines(text) == Len(splitLines(text))

\* the 'input' listener of the rules box
inputListener(value) == value # INITIAL_RULES

\* sortRulesBoxRun that ignores `silent`
sortRulesBoxRunLoud(box, ls, changed, silent) ==
    LET next == sortRulesBoxNext(box)
    IN  IF next # box
        THEN [box |-> next, ls |-> next, events |-> 1,
              changed |-> inputListener(next), ret |-> TRUE]
        ELSE [box |-> box, ls |-> ls, events |-> 0, changed |-> changed,
              ret |-> FALSE]

\* sortRulesBox({silent}) run on rule text `box`, with `ls` persisted and
\* `changed` the value of RULES_CHANGED: what it leaves behind
sortRulesBoxRun(box, ls, changed, silent) ==
    LET next == sortRulesBoxNext(box)
    IN  IF next # box
        THEN [box |-> next, ls |-> next,
              events |-> IF silent THEN 0 ELSE 1,
              changed |-> IF silent THEN changed ELSE inputListener(next),
              ret |-> TRUE]
        ELSE [box |-> box, ls |-> ls, events |-> 0, changed |-> changed,
              ret |-> FALSE]

\* window 'DOMContentLoaded': the restored rules are sorted once, silently,
\* and the snapshot INITIAL_RULES is taken
DOMContentLoaded ==
    /\ pc = "boot"
    /\ LET r == sortRulesBoxRun(rulesBox, lsRules, RULES_CHANGED, TRUE)
       IN  /\ rulesBox' = r.box
           /\ lsRules' = r.ls
           /\ RULES_CHANGED' = r.changed
           /\ inputEvents' = r.events
           /\ ret' = r.ret
           /\ INITIAL_RULES' = r.box
    /\ original' = rulesBox
    /\ op' = "DOMContentLoaded"
    /\ arg' = TRUE
    /\ pc' = "ready"
    /\ UNCHANGED <<CURRENT_TXNS, CURRENT_RULES, txnVars>>

\* a call sortRulesBox({silent})
SortRulesBox(silent) ==
    /\ pc = "ready"
    /\ numLines(rulesBox) <= MaxBoxLines
    /\ LET r == sortRulesBoxRun(rulesBox, lsRules, RULES_CHANGED, silent)
       IN  /\ rulesBox' = r.box
           /\ lsRules' = r.ls
           /\ RULES_CHANGED' = r.changed
           /\ inputEvents' = r.events
           /\ ret' = r.ret
    /\ original' = rulesBox
    /\ op' = "sortRulesBox"
    /\ arg' = silent
    /\ UNCHANGED <<pc, INITIAL_RULES, CURRENT_TXNS, CURRENT_RULES, txnVars>>

\* the index of the first line addOrUpdateRuleLine rewrites, 0 if none
existingRuleIndex(lines, kwLower) ==
    LET hits == {i \in 1..Len(lines) :
                    LET line == trim(lines[i])
                        parts == splitArrow(line)
                    IN  /\ line # ""
                        /\ ~startsWith(line, "#")
                        /\ Len(parts) >= 2
                        /\ toLowerCase(trim(parts[1])) = kwLower}
    IN  IF hits = {} THEN 0 ELSE CHOOSE i \in hits : \A j \in hits : i <= j

\* the text addOrUpdateRuleLine writes to the box before it sorts
withRuleLine(text, keywordUpper, categoryUpper) ==
    LET lines == splitLines(text)
        i == existingRuleIndex(lines, toLowerCase(keywordUpper))
        ruleLine == keywordUpper \o " => " \o categoryUpper
    IN  join(IF i # 0 THEN [lines EXCEPT ![i] = ruleLine]
                      ELSE Append(lines, ruleLine), "\n")

\* a call addOrUpdateRuleLine(keywordUpper, categoryUpper)
AddOrUpdateRuleLine(keywordUpper, categoryUpper) ==
    /\ pc = "ready"
    /\ numLines(rulesBox) <= MaxBoxLines
    /\ op' = "addOrUpdateRuleLine"
    /\ arg' = <<keywordUpper, categoryUpper>>
    /\ IF keywordUpper = "" \/ categoryUpper = ""
       THEN /\ ret' = FALSE
            /\ inputEvents' = 0
            /\ UNCHANGED <<rulesBox, lsRules, RULES_CHANGED, original>>
       ELSE LET text == withRuleLine(rulesBox, keywordUpper, categoryUpper)
                r == sortRulesBoxRun(text, lsRules, RULES_CHANGED, FALSE)
            IN  /\ original' = text
                /\ rulesBox' = r.box
                /\ RULES_CHANGED' = inputListener(r.box)
                /\ inputEvents' = r.events + 1
                /\ lsRules' = r.box
                /\ ret' = TRUE
    /\ UNCHANGED <<pc, INITIAL_RULES, CURRENT_TXNS, CURRENT_RULES, txnVars>>

\* CURRENT_RULES = parseRules(document.getElementById('rulesBox').value)
ParseRules ==
    /\ pc = "ready"
    /\ CURRENT_RULES' = parseRules(rulesBox)
    /\ op' = "parseRules"
    /\ arg' = rulesBox
    /\ ret' = FALSE
    /\ inputEvents' = 0
    /\ UNCHANGED <<pc, rulesBox, lsRules, INITIAL_RULES, RULES_CHANGED,
                   CURRENT_TXNS, original, txnVars>>

\* a call categorise(CURRENT_TXNS, CURRENT_RULES)
Categorise ==
    /\ pc = "ready"
    /\ CURRENT_TXNS' = categorise(CURRENT_TXNS, CURRENT_RULES)
    /\ op' = "categorise"
    /\ arg' = <<CURRENT_TXNS, CURRENT_RULES>>
    /\ ret' = FALSE
    /\ inputEvents' = 0
    /\ UNCHANGED <<pc, rulesBox, lsRules, INITIAL_RULES, RULES_CHANGED,
                   CURRENT_RULES, original, txnVars>>

\* no transactions persisted, no month selected, an empty dropdown, no alert,
\* the table not rendered yet
noTxnState ==
    /\ MONTH_FILTER = ""
    /\ lsTxns = <<>>
    /\ monthDropdown = [options |-> <<>>, value |-> ""]
    /\ alertMsg = ""
    /\ CURRENT_PAGE = 1
    /\ wheelPages = 0

----------------------------------------------------------------------------
(* Spec: the rules box from page load on.                                  *)

\* the page as it is when DOMContentLoaded fires: the rules box holds the
\* text restored from localStorage (then the text is the persisted one) or
\* fetched from rules.txt (then nothing is persisted)
Init ==
    /\ pc = "boot"
    /\ rulesBox \in RestoredTexts
    /\ lsRules \in {"", rulesBox}
    /\ lsRules = rulesBox => trim(rulesBox) # ""
    /\ INITIAL_RULES = ""
    /\ RULES_CHANGED = FALSE
    /\ CURRENT_TXNS = <<>>
    /\ CURRENT_RULES = <<>>
    /\ op = "none"
    /\ arg = FALSE
    /\ original = ""
    /\ ret = FALSE
    /\ inputEvents = 0
    /\ noTxnState

Next ==
    \/ DOMContentLoaded
    \/ \E silent \in BOOLEAN : SortRulesBox(silent)
    \/ \E a \in RuleArgs : AddOrUpdateRuleLine(a[1], a[2])

Spec == Init /\ [][Next]_vars

----------------------------------------------------------------------------
(* SpecParse: parseRules run on the text of the rules box.                 *)

\* the page is up and the rules box holds a text nothing has sorted yet
InitParse ==
    /\ pc = "ready"
    /\ rulesBox \in RestoredTexts
    /\ lsRules = ""
    /\ INITIAL_RULES = ""
    /\ RULES_CHANGED = (rulesBox # "")
    /\ CURRENT_TXNS = <<>>
    /\ CURRENT_RULES = <<>>
    /\ op = "none"
    /\ arg = FALSE
    /\ original = ""
    /\ ret = FALSE
    /\ inputEvents = 0
    /\ noTxnState

NextParse == ParseRules

SpecParse == InitParse /\ [][NextParse]_vars

----------------------------------------------------------------------------
(* SpecCat: the classifier run on a loaded transaction list.               *)

\* a classification pass has come as far as the call of categorise: the
\* user has typed the rules, a load has filled CURRENT_TXNS, and
\* applyRulesAndRender has parsed the rules box into CURRENT_RULES and
\* persisted its text
InitCat ==
    /\ pc = "ready"
    /\ rulesBox \in CatRuleTexts
    /\ lsRules = rulesBox
    /\ INITIAL_RULES = ""
    /\ RULES_CHANGED = (rulesBox # "")
    /\ CURRENT_TXNS \in SeqsUpTo(LoadedTxns, MaxTxns)
    /\ CURRENT_RULES = parseRules(rulesBox)
    /\ op = "parseRules"
    /\ arg = rulesBox
    /\ original = ""
    /\ ret = FALSE
    /\ inputEvents = 0
    /\ noTxnState

NextCat == Categorise

SpecCat == InitCat /\ [][NextCat]_vars

----------------------------------------------------------------------------
(* Properties of sortRulesBox (under Spec) and parseRules (under           *)
(* SpecParse).                                                             *)

\* sortRulesBox ran in the step that led to this state, on text `original`
sortRan ==
    \/ op \in {"DOMContentLoaded", "sortRulesBox"}
    \/ op = "addOrUpdateRuleLine" /\ ret

blankLines(text) ==
    Len(SelectSeq(splitLines(text), LAMBDA l : trim(l) = ""))

hasArrow(line) == indexOf(line, "=>", 1) # 0

\* how a reader of the rule file sorts its lines: a rule line holds the
\* separator and is neither blank nor a '#' comment
looksLikeRule(line) == ~isBlankOrComment(line) /\ hasArrow(line)
looksLikeComment(line) == ~looksLikeRule(line)

rulePairs(text) ==
    LET rules == parseRules(text) IN {rules[i] : i \in 1..Len(rules)}

\* C1: sortRulesBox applied to a text that sortRulesBox produced leaves the
\* text unchanged and returns false.
C1_SortIdempotent ==
    [][(sortRan /\ op' = "sortRulesBox") => (rulesBox' = rulesBox /\ ret' = FALSE)]_vars

\* a line of the form KEYWORD => CATEGORY, keyword and category not empty
wellFormedRule(line) ==
    /\ looksLikeRule(line)
    /\ trim(splitArrow(line)[1]) # ""
    /\ trim(join(Tail(splitArrow(line)), "=>")) # ""

\* comment lines and rule lines, no blank line
commentsAndRulesNoBlank(text) ==
    LET lines == splitLines(text)
    IN  /\ blankLines(text) = 0
        /\ \E i \in 1..Len(lines) : looksLikeComment(lines[i])
        /\ \E i \in 1..Len(lines) : looksLikeRule(lines[i])
        /\ \A i \in 1..Len(lines) : looksLikeRule(lines[i]) => wellFormedRule(lines[i])

\* comment lines, exactly one blank line, rule lines
oneSeparator(text) ==
    LET lines == splitLines(text)
    IN  /\ blankLines(text) = 1
        /\ \E k \in 2..(Len(lines) - 1) :
              /\ lines[k] = ""
              /\ \A i \in 1..(k - 1) : looksLikeComment(lines[i])
              /\ \A i \in (k + 1)..Len(lines) : wellFormedRule(lines[i])

\* C2: starting from a text of comment lines and rule lines with no blank
\* line, every sortRulesBox and every addOrUpdateRuleLine call leaves a rule
\* text with exactly one blank line (between the comment block and the rule
\* block), however many calls came before.
C2_OneBlankLine ==
    [][(/\ \/ op' \in {"DOMContentLoaded", "sortRulesBox"}
           \/ op' = "addOrUpdateRuleLine" /\ ret'
        /\ \/ pc = "boot" /\ commentsAndRulesNoBlank(rulesBox)
           \/ pc = "ready" /\ oneSeparator(rulesBox))
       => (blankLines(rulesBox') = 1 /\ oneSeparator(rulesBox'))]_vars

\* C3: every non-blank line of the input that does not start with '#' is in
\* the output of sortRulesBox, re-emitted as 'KEYWORD => CATEGORY' or verbatim.
C3_NoLineDiscarded ==
    sortRan =>
        LET inLines == splitLines(original)
            outLines == splitLines(rulesBox)
        IN  \A i \in 1..Len(inLines) :
                ~isBlankOrComment(inLines[i]) =>
                    \E j \in 1..Len(outLines) :
                        \/ outLines[j] = inLines[i]
                        \/ hasArrow(inLines[i])
                           /\ outLines[j] =
                                toUpperCase(trim(splitArrow(inLines[i])[1])) \o " => "
                                \o toUpperCase(trim(join(Tail(splitArrow(inLines[i])), "=>")))

\* C4: the set of (keyword, category) pairs parseRules recovers from the
\* output of sortRulesBox is the set it recovers from the input.
C4_RulePairsPreserved ==
    sortRan => rulePairs(rulesBox) = rulePairs(original)

\* sortRulesBox rewrote a text that holds a rule line with two separators
\* and a second rule
C4_Witness ==
    /\ sortRan
    /\ ret
    /\ Cardinality(rulePairs(original)) >= 2
    /\ \E i \in 1..numLines(original) :
          LET line == splitLines(original)[i]
          IN  yieldsRule(line) /\ Len(splitArrow(line)) >= 3

\* C5: in the output of sortRulesBox every rule line comes after every
\* comment or blank line, the rule lines are in non-decreasing order of
\* their keywords compared without case, and the comment and blank lines are
\* those of the input, in the input's order (then the one separator line).
C5_CommentsThenSortedRules ==
    sortRan =>
        LET inLines == splitLines(original)
            outLines == splitLines(rulesBox)
            inComments == SelectSeq(inLines, looksLikeComment)
            outComments == SelectSeq(outLines, looksLikeComment)
        IN  /\ \A i, j \in 1..Len(outLines) :
                  (i < j /\ looksLikeRule(outLines[i])) =>
                      /\ looksLikeRule(outLines[j])
                      /\ localeCompare(toLowerCase(trim(splitArrow(outLines[i])[1])),
                                       toLowerCase(trim(splitArrow(outLines[j])[1]))) <= 0
            /\ outComments = inComments \/ outComments = Append(inComments, "")

\* sortRulesBox moved a comment in front of rule lines it had to reorder
C5_Witness ==
    /\ sortRan
    /\ ret
    /\ LET inLines == splitLines(original)
           outLines == splitLines(rulesBox)
       IN  /\ \E i, j \in 1..Len(inLines) :
                 i < j /\ looksLikeRule(inLines[i]) /\ inLines[j] = "# c"
           /\ \E i, j \in 1..Len(inLines) :
                 /\ i < j
                 /\ yieldsRule(inLines[i])
                 /\ yieldsRule(inLines[j])
                 /\ localeCompare(ruleOf(inLines[i]).keyword, ruleOf(inLines[j]).keyword) > 0
           /\ Len(SelectSeq(outLines, looksLikeRule)) >= 2

\* (DOMContentLoaded calls sortRulesBox({silent: true}); arg is `silent`.)
\* C6: sortRulesBox returns true exactly when the canonical text differs
\* from the text it read; when it returns false the text, the persisted
\* rules and RULES_CHANGED are untouched and no input event is dispatched;
\* with silent = true no input event is dispatched even when the text changes.
C6_ReturnAndFrame ==
    [][op' \in {"DOMContentLoaded", "sortRulesBox"} =>
        /\ ret' = (sortRulesBoxNext(rulesBox) # rulesBox)
        /\ ret' = (rulesBox' # rulesBox)
        /\ ~ret' => /\ lsRules' = lsRules
                    /\ RULES_CHANGED' = RULES_CHANGED
                    /\ inputEvents' = 0
        /\ arg' = TRUE => inputEvents' = 0
        /\ (ret' /\ arg' = FALSE) => inputEvents' = 1
        /\ ret' => lsRules' = rulesBox']_vars

\* a silent sortRulesBox changed the text and dispatched nothing
C6_Witness ==
    /\ op \in {"DOMContentLoaded", "sortRulesBox"}
    /\ arg = TRUE
    /\ ret
    /\ rulesBox # original
    /\ lsRules = rulesBox
    /\ inputEvents = 0

\* C7: for a line with two or more separators parseRules yields the text
\* before the first separator as keyword and all the text behind the first
\* separator, re-joined with the separator, as category.
C7_CategoryRejoined ==
    op = "parseRules" =>
        LET lines == splitLines(rulesBox)
        IN  \A i \in 1..Len(lines) :
                LET parts == splitArrow(trim(lines[i]))
                IN  (/\ ~isBlankOrComment(lines[i])
                     /\ Len(parts) >= 3
                     /\ trim(parts[1]) # ""
                     /\ trim(parts[2]) # "")
                    => \E k \in 1..Len(CURRENT_RULES) :
                          /\ CURRENT_RULES[k].keyword = toLowerCase(trim(parts[1]))
                          /\ CURRENT_RULES[k].category =
                                toUpperCase(trim(join(Tail(parts), "=>")))

----------------------------------------------------------------------------
(* Properties of categorise, checked under SpecCat.                        *)

\* the indices of the rules whose keyword matches the transaction
matchingRules(t, rules) ==
    {k \in 1..Len(rules) : matchesKeyword(toLowerCase(t.description), rules[k].keyword)}

\* the category of the last rule in list order that matches, "" if none does
lastMatchCategory(t, rules) ==
    LET hits == matchingRules(t, rules)
    IN  IF hits = {} THEN ""
        ELSE rules[CHOOSE k \in hits : \A j \in hits : j <= k].category

\* C8: the category categorise resolves, before the PETROL special case, is
\* the category of the last rule in list order whose keyword matches.
C8_LastMatchWins ==
    op = "categorise" =>
        \A i \in 1..Len(CURRENT_TXNS) :
            LET last == lastMatchCategory(arg[1][i], arg[2])
            IN  last # "" =>
                    \/ CURRENT_TXNS[i].category = last
                    \/ last = "PETROL" /\ CURRENT_TXNS[i].category = "COFFEE"

\* a transaction that two rules of different categories match carries the
\* category of the later one
C8_Witness ==
    /\ op = "categorise"
    /\ \E i \in 1..Len(CURRENT_TXNS) :
          LET hits == matchingRules(arg[1][i], arg[2])
          IN  \E a, b \in hits :
                /\ a < b
                /\ \A k \in hits : k <= b
                /\ arg[2][a].category # arg[2][b].category
                /\ arg[2][a].category \notin {"PETROL", "COFFEE"}
                /\ CURRENT_TXNS[i].category = arg[2][b].category

\* C9: after categorise no transaction of absolute amount <= 2 has category
\* PETROL: one resolved to PETROL has COFFEE if |amount| <= 2 and PETROL if
\* |amount| > 2, and one resolved to another category keeps it.
C9_PetrolOverride ==
    op = "categorise" =>
        \A i \in 1..Len(CURRENT_TXNS) :
            LET t == CURRENT_TXNS[i]
                last == lastMatchCategory(arg[1][i], arg[2])
                small == abs(arg[1][i].amount) <= 2 * 100
            IN  /\ small => t.category # "PETROL"
                /\ (last = "PETROL" /\ small) => t.category = "COFFEE"
                /\ (last = "PETROL" /\ ~small) => t.category = "PETROL"
                /\ (last # "PETROL" /\ last # "") => t.category = last

\* a transaction of exactly 2.00 resolved to PETROL carries COFFEE and one of
\* absolute amount above 2.00 resolved to PETROL keeps PETROL
C9_Witness ==
    /\ op = "categorise"
    /\ \E i, j \in 1..Len(CURRENT_TXNS) :
          /\ lastMatchCategory(arg[1][i], arg[2]) = "PETROL"
          /\ arg[1][i].amount = 2 * 100
          /\ CURRENT_TXNS[i].category = "COFFEE"
          /\ lastMatchCategory(arg[1][j], arg[2]) = "PETROL"
          /\ abs(arg[1][j].amount) > 2 * 100
          /\ CURRENT_TXNS[j].category = "PETROL"

\* C10: after categorise every transaction passed in has a non-empty
\* category; one that no rule matches has UNCATEGORISED, and with an empty
\* rule list every transaction has UNCATEGORISED.
C10_AlwaysCategorised ==
    op = "categorise" =>
        /\ Len(CURRENT_TXNS) = Len(arg[1])
        /\ \A i \in 1..Len(CURRENT_TXNS) :
              /\ CURRENT_TXNS[i].category # ""
              /\ matchingRules(arg[1][i], arg[2]) = {}
                    => CURRENT_TXNS[i].category = "UNCATEGORISED"
              /\ Len(arg[2]) = 0 => CURRENT_TXNS[i].category = "UNCATEGORISED"
              /\ CURRENT_TXNS[i].description = arg[1][i].description
              /\ CURRENT_TXNS[i].amount = arg[1][i].amount

\* categorise ran with rules none of which matches one of two transactions
C10_Witness ==
    /\ op = "categorise"
    /\ Len(arg[2]) > 0
    /\ \E i, j \in 1..Len(CURRENT_TXNS) :
          /\ matchingRules(arg[1][i], arg[2]) = {}
          /\ CURRENT_TXNS[i].category = "UNCATEGORISED"
          /\ matchingRules(arg[1][j], arg[2]) # {}
          /\ CURRENT_TXNS[j].category # "UNCATEGORISED"

----------------------------------------------------------------------------
(* SpecMatch: matchesKeyword applied to a description and a keyword.       *)

InitMatch ==
    /\ pc = "ready"
    /\ rulesBox = ""
    /\ lsRules = ""
    /\ INITIAL_RULES = ""
    /\ RULES_CHANGED = FALSE
    /\ CURRENT_TXNS = <<>>
    /\ CURRENT_RULES = <<>>
    /\ op = "none"
    /\ arg \in MatchDescs \X MatchKeywords
    /\ original = ""
    /\ ret = FALSE
    /\ inputEvents = 0
    /\ noTxnState

NextMatch == MatchesKeyword

SpecMatch == InitMatch /\ [][NextMatch]_vars

----------------------------------------------------------------------------
(* SpecPdf: the document-text scan applied to the text of a PDF.           *)

InitPdf ==
    /\ pc = "ready"
    /\ rulesBox = ""
    /\ lsRules = ""
    /\ INITIAL_RULES = ""
    /\ RULES_CHANGED = FALSE
    /\ CURRENT_TXNS = <<>>
    /\ CURRENT_RULES = <<>>
    /\ op = "none"
    /\ arg \in PdfTexts
    /\ original = ""
    /\ ret = FALSE
    /\ inputEvents = 0
    /\ noTxnState

NextPdf == ParseWestpacPdfText

SpecPdf == InitPdf /\ [][NextPdf]_vars

----------------------------------------------------------------------------
(* SpecLoad: CSV loads and PDF imports after the page has started.         *)

\* DOMContentLoaded has run: the rules box holds the sorted rules, the
\* month saved by an earlier session is restored, no transaction is loaded
InitLoad ==
    /\ pc = "ready"
    /\ rulesBox \in LoadRuleTexts
    /\ lsRules = rulesBox
    /\ INITIAL_RULES = rulesBox
    /\ RULES_CHANGED = FALSE
    /\ CURRENT_TXNS = <<>>
    /\ CURRENT_RULES = <<>>
    /\ op = "DOMContentLoaded"
    /\ arg = TRUE
    /\ original = rulesBox
    /\ ret = FALSE
    /\ inputEvents = 0
    /\ MONTH_FILTER \in SavedMonths
    /\ lsTxns = <<>>
    /\ monthDropdown = [options |-> <<>>, value |-> ""]
    /\ alertMsg = ""
    /\ CURRENT_PAGE = 1
    /\ wheelPages = 0

NextLoad ==
    \/ \E file \in CsvFiles : LoadCsvText(file)
    \/ \E text \in ImportedPdfTexts : PdfInputChange(text)

SpecLoad == InitLoad /\ [][NextLoad]_vars

----------------------------------------------------------------------------
(* SpecSession and SpecPager: sessions of loads, edits of the rule text,   *)
(* month changes, category assignments and wheel events. No category       *)
(* filter is set.                                                          *)

\* the bank's export with n rows: an August row with a description no
\* keyword is derived from, a cheap July row at the petrol station, then July
\* rows of the grocer
sessionCsv(n) ==
    [fields |-> <<"Effective Date", "Debit Amount", "Long Description">>,
     data |-> [i \in 1..n |->
                 ("Effective Date" :> (IF i = 1 THEN "02/08/2025" ELSE "01/07/2025")) @@
                 ("Debit Amount" :> (IF i = 2 THEN "1.50" ELSE "4.50")) @@
                 ("Long Description" :> (IF i = 1 THEN "-" ELSE IF i = 2 THEN "BP" ELSE "COLES"))]]

\* the files of a session: a few rows
SessionFiles == {sessionCsv(n) : n \in 2..(MaxCsvRows + 1)}

\* the files of a session at the pager: less than a page, and one row more
\* than 1, 2, ... pages
PagerFiles ==
    {sessionCsv(2)} \cup {sessionCsv(k * PAGE_SIZE + 1) : k \in 1..(MaxPages - 1)}

\* the rule texts the user leaves in the box after an edit by hand
EditedRuleTexts == {"COLES => GROCERIES\nBP => PETROL"}

\* applyRulesAndRender run on the list `txns` with `box` in the rules box,
\* the month `monthFilter` selected and CURRENT_PAGE being `page`
ApplyRulesAndRender(txns, box, monthFilter, page) ==
    /\ \E r \in {applyRulesAndRender(txns, box, monthFilter)} :
          /\ CURRENT_TXNS' = r.txns
          /\ lsTxns' = r.txns
          /\ CURRENT_RULES' = r.rules
    /\ lsRules' = box
    /\ \E p \in {renderTransactionsTable(
                    Cardinality(monthFilteredTxns(txns, monthFilter)),
                    page, wheelPages)} :
          /\ CURRENT_PAGE' = p.page
          /\ wheelPages' = p.wheel

\* the user edits the rule text by hand: the box fires 'input'
RulesBoxInput(text) ==
    /\ pc = "ready"
    /\ text # rulesBox
    /\ rulesBox' = text
    /\ RULES_CHANGED' = inputListener(text)
    /\ op' = "input"
    /\ arg' = text
    /\ ret' = FALSE
    /\ inputEvents' = 0
    /\ alertMsg' = ""
    /\ UNCHANGED <<pc, lsRules, INITIAL_RULES, CURRENT_TXNS, CURRENT_RULES, original,
                   MONTH_FILTER, lsTxns, monthDropdown, CURRENT_PAGE, wheelPages>>

\* 'click' on the Recalculate button: applyRulesAndRender(event)
Recalculate ==
    /\ pc = "ready"
    /\ ApplyRulesAndRender(CURRENT_TXNS, rulesBox, MONTH_FILTER, 1)
    /\ op' = "applyRulesAndRender"
    /\ arg' = "recalculateBtn"
    /\ ret' = FALSE
    /\ inputEvents' = 0
    /\ alertMsg' = ""
    /\ UNCHANGED <<pc, rulesBox, INITIAL_RULES, RULES_CHANGED, original,
                   MONTH_FILTER, monthDropdown>>

\* 'change' of the month dropdown: the user selects another of its options
MonthFilterChange(value) ==
    /\ pc = "ready"
    /\ value # monthDropdown.value
    /\ value = "" \/ \E n \in DOMAIN monthDropdown.options : monthDropdown.options[n] = value
    /\ monthDropdown' = [monthDropdown EXCEPT !.value = value]
    /\ MONTH_FILTER' = value
    /\ ApplyRulesAndRender(CURRENT_TXNS, rulesBox, value, 1)
    /\ op' = "applyRulesAndRender"
    /\ arg' = "monthFilter"
    /\ ret' = FALSE
    /\ inputEvents' = 0
    /\ alertMsg' = ""
    /\ UNCHANGED <<pc, rulesBox, INITIAL_RULES, RULES_CHANGED, original>>

\* pageItems: the positions in CURRENT_TXNS of the rows of page `page`, each
\* of them with a button that calls assignCategory(idx)
pageItems(txns, monthFilter, page) ==
    LET rows(shown) ==
            {i \in shown : Cardinality({j \in shown : j <= i}) \in
                              ((page - 1) * PAGE_SIZE + 1)..(page * PAGE_SIZE)}
    IN  rows(monthFilteredTxns(txns, monthFilter))

\* the categories the picker lists below '+ Add new category...' and
\* 'Uncategorised': those of the transactions and of the rules
pickerCategories(txns, rules) ==
    {c \in {trim(txns[i].category) : i \in 1..Len(txns)} \cup
           {trim(rules[i].category) : i \in 1..Len(rules)} :
        c # "" /\ toUpperCase(c) # "UNCATEGORISED"}

\* assignCategory(idx) with onChoose(chosen), for a choice below the two
\* special entries of the picker
AssignCategory(idx, chosen) ==
    /\ pc = "ready"
    /\ idx \in pageItems(CURRENT_TXNS, MONTH_FILTER, CURRENT_PAGE)
    /\ chosen \in pickerCategories(CURRENT_TXNS, CURRENT_RULES)
    /\ \E norm \in {toUpperCase(trim(chosen))} :
       \E txns \in {[CURRENT_TXNS EXCEPT ![idx].category = norm]} :
       \E kw \in {deriveKeywordFromTxn(txns[idx])} :
          IF kw # ""
          THEN \E text \in {withRuleLine(rulesBox, kw, norm)} :
               \E r \in {sortRulesBoxRun(text, lsRules, RULES_CHANGED, FALSE)} :
                  /\ original' = text
                  /\ rulesBox' = r.box
                  /\ RULES_CHANGED' = inputListener(r.box)
                  /\ inputEvents' = r.events + 1
                  /\ ApplyRulesAndRender(txns, r.box, MONTH_FILTER, CURRENT_PAGE)
          ELSE /\ CURRENT_TXNS' = txns
               /\ \E p \in {renderTransactionsTable(
                               Cardinality(monthFilteredTxns(txns, MONTH_FILTER)),
                               CURRENT_PAGE, wheelPages)} :
                     /\ CURRENT_PAGE' = p.page
                     /\ wheelPages' = p.wheel
               /\ inputEvents' = 0
               /\ UNCHANGED <<rulesBox, lsRules, RULES_CHANGED, original,
                              CURRENT_RULES, lsTxns>>
    /\ op' = "assignCategory"
    /\ arg' = <<idx, chosen>>
    /\ ret' = FALSE
    /\ alertMsg' = ""
    /\ UNCHANGED <<pc, INITIAL_RULES, MONTH_FILTER, monthDropdown>>

\* a 'wheel' event on the transactions table, deltaY its direction: the
\* listener, if one is bound, compares CURRENT_PAGE with the `pages` of its
\* closure and renders when it has changed the page
Wheel(deltaY) ==
    /\ pc = "ready"
    /\ \E page \in {IF wheelPages <= 1 THEN CURRENT_PAGE
                    ELSE IF deltaY > 0 /\ CURRENT_PAGE < wheelPages THEN CURRENT_PAGE + 1
                    ELSE IF deltaY < 0 /\ CURRENT_PAGE > 1 THEN CURRENT_PAGE - 1
                    ELSE CURRENT_PAGE} :
          CURRENT_PAGE' =
              IF page = CURRENT_PAGE THEN CURRENT_PAGE
              ELSE renderTransactionsTable(
                       Cardinality(monthFilteredTxns(CURRENT_TXNS, MONTH_FILTER)),
                       page, wheelPages).page
    /\ op' = "wheel"
    /\ arg' = deltaY
    /\ ret' = FALSE
    /\ inputEvents' = 0
    /\ alertMsg' = ""
    /\ UNCHANGED <<pc, rulesBox, lsRules, INITIAL_RULES, RULES_CHANGED, CURRENT_TXNS,
                   CURRENT_RULES, original, MONTH_FILTER, lsTxns, monthDropdown,
                   wheelPages>>

\* the page has started as in SpecLoad; then the user loads files, edits the
\* rule text, recalculates, selects months and assigns categories
NextSession ==
    \/ \E file \in SessionFiles : LoadCsvText(file)
    \/ \E text \in EditedRuleTexts : RulesBoxInput(text)
    \/ Recalculate
    \/ \E n \in DOMAIN monthDropdown.options : MonthFilterChange(monthDropdown.options[n])
    \/ MonthFilterChange("")
    \/ \E idx \in DOMAIN CURRENT_TXNS :
          \E chosen \in pickerCategories(CURRENT_TXNS, CURRENT_RULES) :
             AssignCategory(idx, chosen)

SpecSession == InitLoad /\ [][NextSession]_vars

\* SpecPager: the page has started as in SpecLoad; then the user loads files,
\* recalculates, selects months and turns the wheel over the table
NextPager ==
    \/ \E file \in PagerFiles : LoadCsvText(file)
    \/ Recalculate
    \/ \E n \in DOMAIN monthDropdown.options : MonthFilterChange(monthDropdown.options[n])
    \/ MonthFilterChange("")
    \/ \E deltaY \in {-1, 1} : Wheel(deltaY)

SpecPager == InitLoad /\ [][NextPager]_vars

----------------------------------------------------------------------------
(* Specifications of single calls of a function.                           *)

\* the page has started and holds no rule and no transaction; the call is
\* still to be made, its argument is one of args
InitCall(args) ==
    /\ pc = "ready"
    /\ rulesBox = ""
    /\ lsRules = ""
    /\ INITIAL_RULES = ""
    /\ RULES_CHANGED = FALSE
    /\ CURRENT_TXNS = <<>>
    /\ CURRENT_RULES = <<>>
    /\ op = "none"
    /\ arg \in args
    /\ original = ""
    /\ ret = FALSE
    /\ inputEvents = 0
    /\ noTxnState

SpecAmount == InitCall(AmountArgs) /\ [][ParseAmount]_vars

SpecDate == InitCall(DateTexts) /\ [][ParseDateSmart]_vars

SpecTotals == InitCall(TotalsTxns) /\ [][ComputeCategoryTotals]_vars

SpecDerive == InitCall(DerivedFromTxns) /\ [][DeriveKeywordFromTxn]_vars

----------------------------------------------------------------------------
(* Properties of matchesKeyword, checked under SpecMatch.                  *)

\* the tokens of a keyword: its pieces between runs of white space
kwTokens(keyword) ==
    LET spaces == {i \in 1..Len(keyword) : Ch(keyword, i) \in {" ", "\t", "\r", "\n"}}
        starts == {i \in 1..Len(keyword) : i \notin spaces /\ (i = 1 \/ (i - 1) \in spaces)}
        endOf(i) == CHOOSE e \in i..Len(keyword) :
                        /\ \A k \in i..e : k \notin spaces
                        /\ e = Len(keyword) \/ (e + 1) \in spaces
    IN  {<<i, SubSeq(keyword, i, endOf(i))>> : i \in starts}

sameIgnoringCase(a, b) == toLowerCase(a) = toLowerCase(b)

outsideToken(c) ==
    /\ c \notin CharsOf("abcdefghijklmnopqrstuvwxyzABCDEFGHIJKLMNOPQRSTUVWXYZ")
    /\ c \notin CharsOf("0123456789")
    /\ c \notin {"&", ".", "_"}

\* tok stands in desc from position p on as a whole token
wholeTokenAt(desc, tok, p) ==
    /\ p + Len(tok) - 1 <= Len(desc)
    /\ sameIgnoringCase(SubSeq(desc, p, p + Len(tok) - 1), tok)
    /\ p = 1 \/ outsideToken(Ch(desc, p - 1))
    /\ p + Len(tok) = Len(desc) + 1 \/ outsideToken(Ch(desc, p + Len(tok)))

hasWholeToken(desc, tok) == \E p \in 1..Len(desc) : wholeTokenAt(desc, tok, p)

\* C11: matchesKeyword is true only if every token of the keyword stands in
\* the description as a whole token, between the start or the end of the
\* description and characters outside letters, digits, '&', '.', '_'; a
\* description that holds a token only inside a longer token does not match;
\* the letter case of the description and of the keyword does not matter.
C11_WholeTokenOnly ==
    op = "matchesKeyword" =>
        /\ ret => \A tk \in kwTokens(arg[2]) : hasWholeToken(arg[1], tk[2])
        /\ ret = matchesKeyword(toUpperCase(arg[1]), arg[2])
        /\ ret = matchesKeyword(arg[1], toUpperCase(arg[2]))
        /\ ret = matchesKeyword(toLowerCase(arg[1]), toLowerCase(arg[2]))

\* 'woolworths' was looked for in 'woolworthsextra' and did not match, though
\* the description holds it as a substring
C11_Witness ==
    /\ op = "matchesKeyword"
    /\ arg = <<"woolworthsextra", "woolworths">>
    /\ \E p \in 1..Len(arg[1]) : SubSeq(arg[1], p, p + Len(arg[2]) - 1) = arg[2]
    /\ ~ret

\* the three tokens stand in desc in the order of the sequence ts, with only
\* boundary characters (at least one) between one and the next
inOrderAdjacent(desc, ts) ==
    \E p1, p2, p3 \in 1..Len(desc) :
        /\ wholeTokenAt(desc, ts[1], p1)
        /\ wholeTokenAt(desc, ts[2], p2)
        /\ wholeTokenAt(desc, ts[3], p3)
        /\ p1 + Len(ts[1]) < p2
        /\ p2 + Len(ts[2]) < p3
        /\ \A k \in (p1 + Len(ts[1]))..(p2 - 1) : outsideToken(Ch(desc, k))
        /\ \A k \in (p2 + Len(ts[2]))..(p3 - 1) : outsideToken(Ch(desc, k))

\* the tokens of a keyword in the keyword's order
kwTokenSeq(keyword) ==
    LET toks == kwTokens(keyword)
        nth(n) == CHOOSE tk \in toks : Cardinality({u \in toks : u[1] < tk[1]}) = n - 1
    IN  [n \in 1..Cardinality(toks) |-> nth(n)[2]]

\* C12: for a keyword of exactly three tokens matchesKeyword is true only if
\* the three tokens stand in the description in the keyword's order, one or
\* more boundary characters and nothing else between one and the next, the
\* first after a boundary or the start, the last before a boundary or the end.
C12_ThreeTokensInOrder ==
    (op = "matchesKeyword" /\ Cardinality(kwTokens(arg[2])) = 3) =>
        (ret => inOrderAdjacent(arg[1], kwTokenSeq(arg[2])))

\* a keyword of three different tokens did not match a description that
\* holds each of them as a whole token, in another order or with a token
\* between them
C12_Witness ==
    /\ op = "matchesKeyword"
    /\ Cardinality(kwTokens(arg[2])) = 3
    /\ Cardinality({tk[2] : tk \in kwTokens(arg[2])}) = 3
    /\ \A tk \in kwTokens(arg[2]) : hasWholeToken(arg[1], tk[2])
    /\ arg[1] \in {"fuel express coles", "coles xx express fuel"}
    /\ ~ret

reverse(ts) == [i \in 1..Len(ts) |-> ts[Len(ts) + 1 - i]]

\* C13: for a keyword of 1, 2 or 4 or more tokens matchesKeyword is true
\* exactly when every token stands somewhere in the description as a whole
\* token; the order of the tokens in the keyword does not matter.
C13_EveryTokenAnywhere ==
    (op = "matchesKeyword" /\ Cardinality(kwTokens(arg[2])) \notin {0, 3}) =>
        /\ ret = \A tk \in kwTokens(arg[2]) : hasWholeToken(arg[1], tk[2])
        /\ ret = matchesKeyword(arg[1], join(reverse(kwTokenSeq(arg[2])), " "))

\* a keyword of four tokens matched a description that holds its tokens in
\* another order and not next to each other
C13_Witness ==
    /\ op = "matchesKeyword"
    /\ arg = <<"coles xx express fuel", "fuel coles Express coles">>
    /\ ret

----------------------------------------------------------------------------
(* Properties of the document-text scan, checked under SpecPdf.            *)

\* the positions of the date markers among the lines
dateMarkers(lines) == {j \in 1..Len(lines) : isPdfDateLine(lines[j])}

\* the positions of the amount lines
amountLines(lines) == {i \in 1..Len(lines) : isPdfAmountLine(lines[i])}

\* amount line i closes the record date marker j opened: no date marker and
\* no amount line lies between them
closes(lines, j, i) ==
    /\ j \in dateMarkers(lines)
    /\ i \in amountLines(lines)
    /\ j < i
    /\ \A k \in (j + 1)..(i - 1) : k \notin dateMarkers(lines) \cup amountLines(lines)

\* the lines between date marker j and amount line i, table headers left
\* out, joined by a space
descBetween(lines, j, i) ==
    join(SelectSeq(SubSeq(lines, j + 1, i - 1),
                   LAMBDA l : toLowerCase(l) \notin
                                {"withdrawal", "deposit", "date", "description"}), " ")

\* the pairs <<date marker, amount line>> of the records the scan emits, in
\* the order of the lines
emittedRecords(lines) ==
    LET pairs == {p \in dateMarkers(lines) \X amountLines(lines) :
                    /\ closes(lines, p[1], p[2])
                    /\ ~isPaymentBpay(descBetween(lines, p[1], p[2]))}
        nth(n) == CHOOSE p \in pairs : Cardinality({q \in pairs : q[2] < p[2]}) = n - 1
    IN  [n \in 1..Cardinality(pairs) |-> nth(n)]

\* C14: the scan emits at most one transaction per date marker: never more
\* transactions than date-marker lines, none for an amount line that no
\* pending date marker precedes (one that follows another amount line with no
\* date marker between them), none when no amount line follows a date marker.
C14_OneDatePerTxn ==
    op = "parseWestpacPdfText" =>
        LET lines == pdfLines(arg)
            closing == {i \in amountLines(lines) :
                            \E j \in dateMarkers(lines) : closes(lines, j, i)}
        IN  /\ Len(ret) <= Cardinality(dateMarkers(lines))
            /\ Len(ret) <= Cardinality(closing)
            /\ (\A j \in dateMarkers(lines) : \A i \in amountLines(lines) : i < j)
                    => ret = <<>>

\* one date marker, two amount lines behind it, then a date marker no amount
\* line follows: one transaction
C14_Witness ==
    /\ op = "parseWestpacPdfText"
    /\ LET lines == pdfLines(arg)
       IN  /\ Len(lines) = 4
           /\ dateMarkers(lines) = {1, 4}
           /\ amountLines(lines) = {2, 3}
    /\ Len(ret) = 1

\* C15: the description of every emitted transaction is made of the lines
\* between the last date marker before its amount line and that amount line,
\* and of no line in front of that date marker.
C15_DescriptionSinceLastDate ==
    op = "parseWestpacPdfText" =>
        LET lines == pdfLines(arg)
            recs == emittedRecords(lines)
        IN  /\ Len(ret) = Len(recs)
            /\ \A n \in 1..Len(ret) :
                  ret[n].description = descBetween(lines, recs[n][1], recs[n][2])

\* a date marker arrived while a record with a description line was pending;
\* the transaction emitted for the second marker has an empty description
C15_Witness ==
    /\ op = "parseWestpacPdfText"
    /\ LET lines == pdfLines(arg)
       IN  /\ Len(lines) = 4
           /\ dateMarkers(lines) = {1, 3}
           /\ lines[2] = "COLES"
           /\ amountLines(lines) = {4}
    /\ Len(ret) = 1
    /\ ret[1].description = ""

\* text of the form YYYY-MM-DD with MM in 01..12
isIsoDate(d) ==
    /\ Len(d) = 10
    /\ \A i \in {1, 2, 3, 4, 6, 7, 9, 10} : Ch(d, i) \in CharsOf("0123456789")
    /\ Ch(d, 5) = "-"
    /\ Ch(d, 8) = "-"
    /\ SubSeq(d, 6, 7) \in {"01", "02", "03", "04", "05", "06", "07", "08", "09",
                            "10", "11", "12"}

\* C16: every transaction the scan emits has a date of the form YYYY-MM-DD
\* with a month between 01 and 12, whatever the letter case of the month
\* abbreviation of the date marker.
C16_IsoDate ==
    op = "parseWestpacPdfText" =>
        \A n \in 1..Len(ret) : isIsoDate(ret[n].date)

\* C17: no transaction the scan emits has a description that starts with
\* PAYMENT-BPAY or PAYMENT BPAY in any letter case; the record is discarded
\* and the scan seeks the next date marker.
C17_NoPaymentBpay ==
    op = "parseWestpacPdfText" =>
        /\ \A n \in 1..Len(ret) :
              LET d == toUpperCase(ret[n].description)
              IN  Len(d) >= 12 => SubSeq(d, 1, 12) \notin {"PAYMENT-BPAY", "PAYMENT BPAY"}
        /\ Len(ret) = Len(emittedRecords(pdfLines(arg)))

\* a repayment record was discarded at its amount line, the amount line
\* behind it emitted nothing, and the record after it was emitted
C17_Witness ==
    /\ op = "parseWestpacPdfText"
    /\ LET lines == pdfLines(arg)
       IN  /\ Len(lines) = 4
           /\ dateMarkers(lines) = {1}
           /\ lines[2] = "Payment-BPAY 1"
           /\ amountLines(lines) = {3, 4}
    /\ ret = <<>>

----------------------------------------------------------------------------
(* Properties of the loads, checked under SpecLoad.                        *)

\* C18: every transaction in CURRENT_TXNS has a non-negative amount, after
\* any sequence of CSV loads and PDF imports.
C18_AmountsNonNegative ==
    \A i \in 1..Len(CURRENT_TXNS) : CURRENT_TXNS[i].amount >= 0

\* the rows of the file that have a date or a description and a debit amount
\* that is a number other than 0
rowsWithDebit(file) ==
    LET f == resolveFields(file.fields)
    IN  SelectSeq(file.data,
                  LAMBDA r : /\ cellOf(r, f.date) # "" \/ trim(cellOf(r, f.desc)) # ""
                             /\ toNumber(keepChars(cellOf(r, f.debit),
                                                   CharsOf("0123456789-."))) \notin
                                    {<<>>, <<0>>})

\* C19: loadCsvText makes a transaction of a row exactly when the row has a
\* date or a description and its parsed debit amount is not 0; the
\* transactions come in the order of the rows, with the row's date, its
\* description and its amount.
C19_RowFilter ==
    op = "loadCsvText" =>
        LET f == resolveFields(arg.fields)
            rows == rowsWithDebit(arg)
        IN  /\ Len(CURRENT_TXNS) = Len(rows)
            /\ ret = CURRENT_TXNS
            /\ \A i \in 1..Len(rows) :
                  /\ CURRENT_TXNS[i].date = cellOf(rows[i], f.date)
                  /\ CURRENT_TXNS[i].description = trim(cellOf(rows[i], f.desc))
                  /\ CURRENT_TXNS[i].amount = parseAmount(cellOf(rows[i], f.debit))

\* a file of two rows was loaded: the first, with a zero amount, was
\* dropped, the second, without a date, was kept
C19_Witness ==
    /\ op = "loadCsvText"
    /\ Len(arg.data) = 2
    /\ LET f == resolveFields(arg.fields)
       IN  /\ cellOf(arg.data[1], f.debit) = "0.00"
           /\ cellOf(arg.data[1], f.desc) = "ZERO"
           /\ cellOf(arg.data[2], f.date) = ""
    /\ Len(CURRENT_TXNS) = 1
    /\ CURRENT_TXNS[1].description = "REFUND"
    /\ CURRENT_TXNS[1].amount = 100000

\* C20: a PDF import that recovers no transaction raises the alert 'No
\* transactions found in PDF' and leaves CURRENT_TXNS (the assigned
\* categories with it), the persisted transactions and the month dropdown
\* as they were.
C20_EmptyImportChangesNothing ==
    [][(op' = "pdfImport" /\ ret' = <<>>) =>
        /\ alertMsg' = "No transactions found in PDF"
        /\ CURRENT_TXNS' = CURRENT_TXNS
        /\ lsTxns' = lsTxns
        /\ monthDropdown' = monthDropdown
        /\ MONTH_FILTER' = MONTH_FILTER]_vars

\* an import found nothing while categorised transactions were loaded and
\* persisted and the dropdown offered their months
C20_Witness ==
    /\ op = "pdfImport"
    /\ ret = <<>>
    /\ alertMsg = "No transactions found in PDF"
    /\ Len(CURRENT_TXNS) = 2
    /\ CURRENT_TXNS[1].category = "GROCERIES"
    /\ lsTxns = CURRENT_TXNS
    /\ Len(monthDropdown.options) = 2

----------------------------------------------------------------------------
(* Properties of parseAmount, checked under SpecAmount.                    *)

\* the text Number() is given: the characters other than digits, '-', ','
\* and '.' removed, then the commas
cleanedAmount(s) ==
    keepChars(keepChars(s, CharsOf(Digits) \cup {"-", ",", "."}),
              CharsOf(Digits) \cup {"-", "."})

\* a decimal literal: an optional minus sign, digits, an optional point,
\* digits, at least one digit in all
validNumber(t) ==
    LET valid(m) == m # <<>> /\ Len(m[1].caps[1]) + Len(m[1].caps[2]) > 0
    IN  valid(reMatch(t, << <<"class", {"-"}, 0, 1, FALSE>>,
                            <<"class", CharsOf(Digits), 0, -1, TRUE>>,
                            <<"class", {"."}, 0, 1, FALSE>>,
                            <<"class", CharsOf(Digits), 0, -1, TRUE>>,
                            <<"end">> >>, <<>>))

\* C21: parseAmount returns a number for every argument, and returns 0 for
\* null, for the empty text and for every text that, with the characters
\* other than digits, '-' and '.' removed, is not a number.
C21_ParseAmountTotal ==
    op = "parseAmount" =>
        /\ ret \in Int
        /\ (arg = <<>> \/ ~validNumber(cleanedAmount(arg[1]))) => ret = 0

\* a text with digits and two decimal points gave 0
C21_Witness ==
    /\ op = "parseAmount"
    /\ arg = <<"1.2.3.4">>
    /\ ret = 0

----------------------------------------------------------------------------
(* Properties of parseDateSmart, checked under SpecDate.                   *)

\* the calendar date that day d of month m of year y names; a day the
\* month does not have counts on into the next month
calendarDate(y, m, d) ==
    IF d <= daysInMonth(y, m) THEN [year |-> y, month |-> m, day |-> d]
    ELSE IF m = 12 THEN [year |-> y + 1, month |-> 1, day |-> d - 31]
    ELSE [year |-> y, month |-> m + 1, day |-> d - daysInMonth(y, m)]

\* C22: the year-first, the day-first and the natural-language text that
\* name the same day, month and year give the same calendar date, and a
\* text none of the three patterns matches gives null.
C22_SameDateForEveryForm ==
    op = "parseDateSmart" =>
        /\ \A form \in {"year-first", "day-first", "natural"} :
              \A y \in DateYears, m \in 1..12, d \in DateDays :
                  arg = dateText(form, y, m, d) => ret = <<calendarDate(y, m, d)>>
        /\ arg \in NonDateTexts => ret = <<>>

\* the day-first text of 28 February 2024 gave that date, with day and
\* month in the places the pattern gives them
C22_Witness ==
    /\ op = "parseDateSmart"
    /\ arg = "28/02/2024"
    /\ ret = <<[year |-> 2024, month |-> 2, day |-> 28]>>

----------------------------------------------------------------------------
(* Properties of computeCategoryTotals, checked under SpecTotals.          *)

\* the amounts of the transactions of category c, in list order
amountsIn(txns, c) ==
    LET mine == SelectSeq(txns, LAMBDA t : t.category = c)
    IN  [k \in 1..Len(mine) |-> mine[k].amount]

----------------------------------------------------------------------------
(* Properties of deriveKeywordFromTxn, checked under SpecDerive.           *)

\* C28: the keyword deriveKeywordFromTxn suggests for a transaction whose
\* description holds a token matches that description.
C28_DerivedKeywordMatches ==
    op = "deriveKeywordFromTxn" =>
        /\ ret # ""
        /\ matchesKeyword(toLowerCase(arg.description), toLowerCase(ret))

\* the card-prefix branch gave a keyword of three tokens, the ones behind
\* 'visa'
C28_Witness ==
    /\ op = "deriveKeywordFromTxn"
    /\ arg.description = "VISA-X1 Coles B&B."
    /\ ret = "X1 COLES B&B."

----------------------------------------------------------------------------
(* Properties of addOrUpdateRuleLine and the classification, checked      *)
(* under Spec.                                                             *)

\* C26: after addOrUpdateRuleLine(K, C) has returned true, a transaction
\* whose description is K itself, with an amount above the fuel threshold,
\* is classified as C under the rule text the call left.
C26_KeywordMapsToCategory ==
    (op = "addOrUpdateRuleLine" /\ ret = TRUE) =>
        categoriseOne([date |-> "2025-07-01", amount |-> 450,
                       description |-> arg[1], category |-> ""],
                      parseRules(rulesBox)).category = arg[2]

----------------------------------------------------------------------------
(* Properties of the classification pass after a load, checked under      *)
(* SpecLoad.                                                               *)

\* C27: after a load has run applyRulesAndRender, every transaction of
\* CURRENT_TXNS, and of the persisted copy, carries the category categorise
\* gives it under the rule text of the box, whichever month is selected.
C27_EveryTxnCategorised ==
    (op = "loadCsvText" \/ (op = "pdfImport" /\ alertMsg = "")) =>
        /\ CURRENT_TXNS = categorise(CURRENT_TXNS, parseRules(rulesBox))
        /\ lsTxns = CURRENT_TXNS

----------------------------------------------------------------------------
(* Properties of the classification passes of a session, checked under     *)
(* SpecSession.                                                            *)

\* C24: after every run of applyRulesAndRender (a load, Recalculate, a month
\* change) the rule list handed to categorise is sorted by keyword, in the
\* order sortRulesBox gives the rule lines.
C24_RulesSortedAtEveryPass ==
    op \in {"loadCsvText", "applyRulesAndRender"} =>
        \A i, j \in DOMAIN CURRENT_RULES :
            i < j => localeCompare(CURRENT_RULES[i].keyword, CURRENT_RULES[j].keyword) <= 0

\* C25: when assignCategory(idx) has finished for a category the user
\* picked from the list, transaction idx carries that category.
C25_ManualOverrideSticks ==
    op = "assignCategory" =>
        CURRENT_TXNS[arg[1]].category = toUpperCase(trim(arg[2]))

----------------------------------------------------------------------------
(* Properties of the pager, checked under SpecPager.                       *)

\* C29: a wheel-down event moves CURRENT_PAGE forward by one whenever it is
\* below the number of pages of the list that is shown, a wheel-up event
\* moves it back by one whenever it is above 1, and CURRENT_PAGE is within
\* 1..totalPages afterwards.
C29_WheelFollowsPageCount ==
    [][op' = "wheel" =>
          LET pages == totalPages(Cardinality(monthFilteredTxns(CURRENT_TXNS, MONTH_FILTER)))
          IN  /\ (arg' > 0 /\ CURRENT_PAGE < pages) => CURRENT_PAGE' = CURRENT_PAGE + 1
              /\ (arg' < 0 /\ CURRENT_PAGE > 1) => CURRENT_PAGE' = CURRENT_PAGE - 1
              /\ CURRENT_PAGE' \in 1..pages]_vars

====
